---- MODULE Spec2Model ----
(***************************************************************************)
(* CubieGameJS 1.0.0 (src/cubiegamejs/1.0.0/engine.js): the frame loop,    *)
(* the entity registry, the system table, the event emitter, the tweens   *)
(* and the particle emitters.                                              *)
(*                                                                         *)
(* The specifications of the module share its variables:                   *)
(*   SpecBus    EventEmitter.on / off / once / emit, with emit's forEach   *)
(*              unfolded into one step per visited index so that a         *)
(*              callback can change the table or publish while the         *)
(*              dispatch is running;                                       *)
(*   SpecReg    Cubie.entity.create / get / remove;                        *)
(*   SpecSys    Cubie.system.add / remove / enable / disable and           *)
(*              Cubie.camera.follow;                                       *)
(*   SpecFrame  Cubie.start, Cubie.loop and Cubie.update, one step per     *)
(*              call, over a game of spheres, hooks, systems and a         *)
(*              collision handler;                                         *)
(*   SpecSched  the same frames, with systems and entities added,          *)
(*              removed, enabled and disabled between them;                *)
(*   SpecPairs  the pairwise pass of PhysicsSystem.update, with a          *)
(*              collision handler that removes a body;                     *)
(*   SpecLoop   Cubie.start / stop / pause / resume against the callbacks  *)
(*              of requestAnimationFrame and the clock;                    *)
(*   SpecTween  TweenSystem.to / update, with completion callbacks that    *)
(*              start another tween;                                       *)
(*   SpecPart   ParticleSystem.createEmitter / update / removeEmitter;     *)
(*   SpecPhys   PhysicsSystem.addBody / applyForce / setGravity / update   *)
(*              called by a game directly;                                 *)
(*   SpecPos    Entity.position.set / get, in 3D and in 2D;                *)
(*   SpecThrow  the frames of SpecFrame with hooks, systems and scripts    *)
(*              that may throw;                                            *)
(*   SpecStack  PhysicsSystem.update on spheres placed beside and above    *)
(*              one another;                                               *)
(*   SpecSpawn  ParticleSystem.update on emitters that stay below their    *)
(*              maximum, under frames of varying length;                   *)
(*   SpecVis    the frame loop under pause() and resume() called by the    *)
(*              game and by the listener of visibilitychange;              *)
(*   SpecLoopFair  SpecLoop with a display that keeps refreshing.          *)
(***************************************************************************)
EXTENDS Integers, Sequences, FiniteSets, TLC

VARIABLES
  events,      \* EventEmitter.events: event name -> array of subscriptions
  stack,       \* the activations of EventEmitter.emit, outermost first
  done,        \* history: the activation of emit that returned last, kept
               \* until the game next changes the table
  trace,       \* history: <<depth, element>> of every invocation made
               \* since the outermost publish began
  stamp,       \* history: number of subscriptions made so far
  onceCalls,   \* history: wrapper -> times the callback given to once ran
  topMut,      \* history: the table changed since the outermost publish
  mode,        \* Cubie.config.mode: "2d" or "3d"
  heap,        \* the Entity objects built so far; an entity is named by its
               \* index (its identity as a JavaScript object)
  entities,    \* Cubie.entities: Map name -> Entity, in insertion order
  scene,       \* the meshes held by the THREE scene, each named by its entity
  layers,      \* Cubie.layers: Map layer name -> array of entities
  sysHeap,     \* the system objects handed to the engine so far
  systems,     \* Cubie.systems: Map name -> system, in insertion order
  lastOp,      \* history: the registry call made last, and the state before it
  emitted,     \* history: the events that call published, with what get()
               \* and the renderer showed at that moment
  isRunning,   \* Cubie.isRunning
  isPaused,    \* Cubie.isPaused
  pending,     \* the callbacks requestAnimationFrame holds for loop()
  frameCount,  \* Cubie.frameCount
  time,        \* Cubie.time, in 1/Scale seconds
  dt,          \* Cubie.deltaTime, in 1/Scale seconds
  origin,      \* who called the loop() that is running: "raf" or "start"
  pc,          \* where the running loop() is: the phase and its loop indices
  hooks,       \* Cubie.hooks: the four arrays of hook functions
  bodies,      \* PhysicsSystem.bodies
  ftrace,      \* history: the calls the running frame has made, in order
  removedNow,  \* history: the entities removed while the frame was running
  touched,     \* history: the entities a step of the frame visited after
               \* they had been removed during that frame
  stall,       \* the time passed since the call of clock.getDelta() that was
               \* made last, up to the callback run last, in 1/Scale seconds
  pausedTotal, \* history: the part of Cubie.time that passed while paused
  pairsSeen,   \* history: the pairs of entities checkCollision was called
               \* with by the running frame, in order
  target,      \* the object the tweens animate: property -> value, in 1/Scale
  tweens,      \* TweenSystem.tweens
  thist,       \* history: tween id -> what to() saw and what the steps did
  emitters,    \* ParticleSystem.emitters
  phist,       \* history: per emitter, what the calls of update did to it
  psteps,      \* history: number of calls of ParticleSystem.update made
  gravity,     \* PhysicsSystem.gravity, in 1/Scale
  physHist,    \* history: what addBody and applyForce were given, and what
               \* the call of PhysicsSystem.update made last did
  posHist,     \* history: the call of position.set made last and what the
               \* position.get that followed it returned
  lifeHist     \* history: whether the page is hidden, whether a pause() of
               \* the game is still to be answered by its resume(), and the
               \* number of the frame that was left by an exception last

busVars == <<events, stack, done, trace, stamp, onceCalls, topMut>>
regVars == <<mode, heap, entities, scene, layers, sysHeap, systems, lastOp, emitted>>

frameVars == <<isRunning, isPaused, pending, frameCount, time, dt, origin, pc,
               hooks, bodies, ftrace, removedNow, touched, stall, pausedTotal,
               pairsSeen>>

tweenVars == <<target, tweens, thist>>
partVars == <<emitters, phist, psteps>>
physVars == <<gravity, physHist>>
posVars == <<posHist>>
lifeVars == <<lifeHist>>
extVars == <<tweenVars, partVars, physVars, posVars, lifeVars>>

vars == <<busVars, regVars, frameVars, extVars>>
notBus == <<regVars, frameVars, extVars>>
notReg == <<busVars, frameVars, extVars>>

----------------------------------------------------------------------------
(* Bounds *)

MaxSubscribe == 3     \* subscriptions (on + once) made in one behaviour
MaxDepth == 2         \* nesting of emit that the re-publishing callback allows
MaxEntities == 3      \* Entity objects built in one behaviour
MaxSystems == 3       \* system objects handed to the engine in one behaviour
MaxBodies == 3        \* spheres with a physics body the game builds
MaxHooks == 2         \* hook functions the game registers
MaxGameSystems == 2   \* system objects the game of the frame loop hands over
MaxFrames == 2        \* frames run in one behaviour
MaxPending == 2       \* requestAnimationFrame callbacks held at one time
MaxTweens == 2        \* calls of to() the game makes in one behaviour
MaxStall == 2         \* longest time, in 1/Scale seconds, that the callbacks
                      \* of one pause let pass
MaxEmitters == 2      \* calls of createEmitter made in one behaviour
MaxSteps == 4         \* calls of ParticleSystem.update made in one behaviour
MaxPhysBodies == 2    \* bodies of the game that steps the physics itself
MaxPhysSteps == 2     \* calls of PhysicsSystem.update that game makes
MaxForces == 1        \* calls of applyForce that game makes
MaxPosEntities == 1   \* entities of the game that sets and reads positions

----------------------------------------------------------------------------
(* Sequence helpers *)

RECURSIVE IndexOfFrom(_, _, _)
IndexOfFrom(arr, x, i) ==
  IF i > Len(arr) THEN 0
  ELSE IF arr[i] = x THEN i
  ELSE IndexOfFrom(arr, x, i + 1)

\* Array.prototype.indexOf, 1-based; 0 stands for -1
IndexOf(arr, x) == IndexOfFrom(arr, x, 1)

\* Array.prototype.splice(index, 1), index 1-based
Splice1(arr, i) == [k \in 1..(Len(arr) - 1) |-> IF k < i THEN arr[k] ELSE arr[k + 1]]

----------------------------------------------------------------------------
(* EventEmitter *)

EventNames == {"foo", "bar"}

\* The callbacks the game registers.  "a" only records that it ran,
\* "u" unsubscribes itself from the event it is invoked for, "r" publishes
\* the event it is invoked for again while fewer than MaxDepth publishes of
\* it are running.
UserIds == {"a", "u", "r"}
OnceIds == {"a", "r"}

Kind(id) ==
  CASE id = "a" -> "plain"
    [] id = "u" -> "selfOff"
    [] id = "r" -> "reemit"

\* A callback is a function object: a callback of the game (w = 0) or the
\* wrapper closure that once() builds around one (w = the number of the
\* once() call, every call building a new closure).
User(id) == [id |-> id, w |-> 0]
Wrapper(id, n) == [id |-> id, w |-> n]
NoCb == [id |-> "none", w |-> 0]

\* An array element: the callback, annotated with the number of the
\* subscription that pushed it and the event it was subscribed to (history,
\* not read by the code).
Sub(cb, n, e) == [cb |-> cb, at |-> n, ev |-> e]
Cbs(arr) == [i \in 1..Len(arr) |-> arr[i].cb]

\* on() with unshift in place of push
OnResultUnshift(evts, e, sub) ==
  LET t == IF e \in DOMAIN evts
           THEN evts
           ELSE [x \in DOMAIN evts \cup {e} |-> IF x = e THEN <<>> ELSE evts[x]]
  IN [t EXCEPT ![e] = <<sub>> \o @]

\* EventEmitter.on
OnResult(evts, e, sub) ==
  LET t == IF e \in DOMAIN evts
           THEN evts
           ELSE [x \in DOMAIN evts \cup {e} |-> IF x = e THEN <<>> ELSE evts[x]]
  IN [t EXCEPT ![e] = Append(@, sub)]

\* EventEmitter.off
OffResult(evts, e, cb) ==
  IF e \notin DOMAIN evts THEN evts
  ELSE LET index == IndexOf(Cbs(evts[e]), cb)
       IN IF index > 0 THEN [evts EXCEPT ![e] = Splice1(@, index)] ELSE evts

\* Array.prototype.forEach reads the length once and then visits the indices
\* 0 .. length-1 of the live array, skipping an index the array no longer has.
ForEachHas(arr, k) == k < Len(arr)
ForEachAt(arr, k) == arr[k + 1]

\* An activation of emit: the event, forEach's index and captured length, the
\* callback that is waiting for a nested emit to return, and the history of
\* the activation (the array when it began, the elements it invoked, whether
\* the array changed meanwhile).
NewFrame(evts, e, d) ==
  [ev |-> e, k |-> 0, len |-> Len(evts[e]), cur |-> NoCb,
   snap |-> evts[e], calls |-> <<>>, mut |-> FALSE, depth |-> d]

NoFrame ==
  [ev |-> "none", k |-> 0, len |-> 0, cur |-> NoCb,
   snap |-> <<>>, calls |-> <<>>, mut |-> FALSE, depth |-> 0]

Top == stack[Len(stack)]

\* history: the activations whose array is not the one they started with
MarkMut(stk, e, changed) ==
  [i \in 1..Len(stk) |->
     IF changed /\ stk[i].ev = e THEN [stk[i] EXCEPT !.mut = TRUE] ELSE stk[i]]

Logged(f, sub) == [f EXCEPT !.calls = Append(@, sub)]

\* a dispatch that gives up its remaining callbacks once one of them published
AdvanceAbort(f) ==
  IF f.cur # NoCb
  THEN [f EXCEPT !.k = f.len, !.cur = NoCb]
  ELSE [f EXCEPT !.k = @ + 1, !.cur = NoCb]

\* forEach moves on to the next index when the callback has returned
Advance(f) == [f EXCEPT !.k = @ + 1, !.cur = NoCb]
SetTop(stk, f) == [stk EXCEPT ![Len(stk)] = f]

BusInit ==
  /\ events = [e \in {} |-> <<>>]
  /\ stack = <<>>
  /\ done = NoFrame
  /\ trace = <<>>
  /\ stamp = 0
  /\ onceCalls = [n \in 1..(MaxSubscribe + 1) |-> 0]
  /\ topMut = FALSE

\* events.on(e, callback), called by the game between publishes
On(e, id) ==
  /\ stack = <<>>
  /\ stamp < MaxSubscribe
  /\ stamp' = stamp + 1
  /\ events' = OnResult(events, e, Sub(User(id), stamp + 1, e))
  /\ done' = NoFrame
  /\ trace' = <<>>
  /\ topMut' = FALSE
  /\ UNCHANGED <<stack, onceCalls>>
  /\ UNCHANGED notBus

\* events.once(e, callback): on(e, wrapper)
Once(e, id) ==
  /\ stack = <<>>
  /\ stamp < MaxSubscribe
  /\ stamp' = stamp + 1
  /\ events' = OnResult(events, e, Sub(Wrapper(id, stamp + 1), stamp + 1, e))
  /\ done' = NoFrame
  /\ trace' = <<>>
  /\ topMut' = FALSE
  /\ UNCHANGED <<stack, onceCalls>>
  /\ UNCHANGED notBus

\* events.off(e, callback), called by the game between publishes
Off(e, id) ==
  /\ stack = <<>>
  /\ events' = OffResult(events, e, User(id))
  /\ done' = NoFrame
  /\ trace' = <<>>
  /\ topMut' = FALSE
  /\ UNCHANGED <<stack, stamp, onceCalls>>
  /\ UNCHANGED notBus

\* events.emit(e), called by the game: returns at once when the event has no
\* array, else starts the forEach
Emit(e) ==
  /\ stack = <<>>
  /\ trace' = <<>>
  /\ topMut' = FALSE
  /\ IF e \notin DOMAIN events
     THEN /\ done' = [NoFrame EXCEPT !.ev = e, !.depth = 1]
          /\ stack' = stack
     ELSE /\ stack' = <<NewFrame(events, e, 1)>>
          /\ done' = done
  /\ UNCHANGED <<events, stamp, onceCalls>>
  /\ UNCHANGED notBus

\* forEach reaches an index that the array has lost
Skip ==
  /\ stack # <<>>
  /\ Top.cur = NoCb
  /\ Top.k < Top.len
  /\ ~ForEachHas(events[Top.ev], Top.k)
  /\ stack' = SetTop(stack, Advance(Top))
  /\ UNCHANGED <<events, done, trace, stamp, onceCalls, topMut>>
  /\ UNCHANGED notBus

\* does the callback publish when it is invoked at this depth
Publishes(cb, d) == Kind(cb.id) = "reemit" /\ d < MaxDepth

\* what the callback does after its own body (and a nested publish) is over:
\* "u" calls off(e, u); the wrapper of once calls off(e, wrapper)
AfterCall(evts, e, cb) ==
  IF cb.w > 0 \/ Kind(cb.id) = "selfOff" THEN OffResult(evts, e, cb) ELSE evts

\* forEach invokes the callback at its index, and the callback returns
\* without publishing
Invoke ==
  /\ stack # <<>>
  /\ Top.cur = NoCb
  /\ Top.k < Top.len
  /\ ForEachHas(events[Top.ev], Top.k)
  /\ LET sub == ForEachAt(events[Top.ev], Top.k)
         after == AfterCall(events, Top.ev, sub.cb)
     IN /\ ~Publishes(sub.cb, Len(stack))
        /\ events' = after
        /\ stack' = MarkMut(SetTop(stack, Advance(Logged(Top, sub))),
                            Top.ev, after # events)
        /\ trace' = Append(trace, <<Len(stack), sub>>)
        /\ onceCalls' = IF sub.cb.w > 0
                        THEN [onceCalls EXCEPT ![sub.cb.w] = @ + 1]
                        ELSE onceCalls
        /\ topMut' = (topMut \/ after # events)
  /\ UNCHANGED <<done, stamp>>
  /\ UNCHANGED notBus

\* forEach invokes the callback at its index, and the callback calls
\* emit for the same event: the nested forEach starts
InvokePublish ==
  /\ stack # <<>>
  /\ Top.cur = NoCb
  /\ Top.k < Top.len
  /\ ForEachHas(events[Top.ev], Top.k)
  /\ LET sub == ForEachAt(events[Top.ev], Top.k)
     IN /\ Publishes(sub.cb, Len(stack))
        /\ stack' = Append(SetTop(stack, [Logged(Top, sub) EXCEPT !.cur = sub.cb]),
                           NewFrame(events, Top.ev, Len(stack) + 1))
        /\ trace' = Append(trace, <<Len(stack), sub>>)
        /\ onceCalls' = IF sub.cb.w > 0
                        THEN [onceCalls EXCEPT ![sub.cb.w] = @ + 1]
                        ELSE onceCalls
  /\ UNCHANGED <<events, done, stamp, topMut>>
  /\ UNCHANGED notBus

\* forEach is over: emit returns, to the game or to the callback that
\* published, which then finishes and lets the outer forEach go on
Return ==
  /\ stack # <<>>
  /\ Top.cur = NoCb
  /\ Top.k >= Top.len
  /\ done' = Top
  /\ IF Len(stack) = 1
     THEN /\ stack' = <<>>
          /\ UNCHANGED <<events, topMut>>
     ELSE LET rest == SubSeq(stack, 1, Len(stack) - 1)
              caller == rest[Len(rest)]
              after == AfterCall(events, caller.ev, caller.cur)
          IN /\ events' = after
             /\ stack' = MarkMut(SetTop(rest, Advance(caller)),
                                 caller.ev, after # events)
             /\ topMut' = (topMut \/ after # events)
  /\ UNCHANGED <<trace, stamp, onceCalls>>
  /\ UNCHANGED notBus

BusNext ==
  \/ \E e \in EventNames, id \in UserIds : On(e, id)
  \/ \E e \in EventNames, id \in OnceIds : Once(e, id)
  \/ \E e \in EventNames, id \in UserIds : Off(e, id)
  \/ \E e \in EventNames : Emit(e)
  \/ Skip
  \/ Invoke
  \/ InvokePublish
  \/ Return


----------------------------------------------------------------------------
(* Entity registry and system table *)

\* A JavaScript Map, as the sequence of its entries in insertion order.  The
\* values are object identities (indices of a heap), 0 standing for undefined.
MapIndex(m, key) == IndexOf([i \in 1..Len(m) |-> m[i].key], key)
MapHas(m, key) == MapIndex(m, key) > 0
MapGet(m, key) == IF MapHas(m, key) THEN m[MapIndex(m, key)].val ELSE 0

\* Map.prototype.set: a key the map has keeps its place and gets the value
MapSet(m, key, v) ==
  IF MapHas(m, key)
  THEN [m EXCEPT ![MapIndex(m, key)].val = v]
  ELSE Append(m, [key |-> key, val |-> v])

\* a delete that drops the oldest entry, whatever the key
MapDeleteOldest(m, key) ==
  IF m = <<>> THEN m ELSE Splice1(m, 1)

\* Map.prototype.delete
MapDelete(m, key) ==
  IF MapHas(m, key) THEN Splice1(m, MapIndex(m, key)) ELSE m

EntityNames == {"player", "coin"}
LayerChoice == {"", "hud"}          \* config.layer of create; "" is undefined
SystemNames == {"ai", "camera-follow"}

\* config.mesh of create: the 3D primitives pass one, a 2D game passes none
MeshChoice(md) == IF md = "2d" THEN {FALSE} ELSE BOOLEAN

\* new Entity(name, config, engine): mesh is whether config.mesh was given
\* (the entity then delegates its transform to the mesh); pos is the mesh's
\* position, x and y the entity's own 2D fields
NewEntity(name, cfg) ==
  [name |-> name, mesh |-> cfg.mesh, enabled |-> TRUE, visible |-> TRUE,
   scripts |-> <<>>, tags |-> {},
   pos |-> [x |-> 0, y |-> 0, z |-> 0], x |-> 0, y |-> 0]

\* Cubie.entity.get
EntityGet(ents, name) == MapGet(ents, name)

\* is the entity held by the renderer: its mesh by the scene, or the entity
\* by some 2D layer
Attached(sc, ly, oid) ==
  \/ oid \in sc
  \/ \E l \in DOMAIN ly : \E i \in 1..Len(ly[l]) : ly[l][i] = oid

\* init2D: the four layer arrays; in 3D the map stays empty
InitLayers(md) ==
  IF md = "2d"
  THEN [l \in {"background", "main", "foreground", "ui"} |-> <<>>]
  ELSE [l \in {} |-> <<>>]

\* Cubie.entity.create, lines 315-323: hand the entity to the renderer
AttachScene(md, sc, ent, oid) ==
  IF md = "3d" /\ ent.mesh THEN sc \cup {oid} ELSE sc

AttachLayers(md, ly, ent, oid, layerCfg) ==
  IF md = "3d" /\ ent.mesh THEN ly
  ELSE IF md = "2d"
  THEN LET layer == IF layerCfg = "" THEN "main" ELSE layerCfg
           t == IF layer \in DOMAIN ly
                THEN ly
                ELSE [l \in DOMAIN ly \cup {layer} |->
                        IF l = layer THEN <<>> ELSE ly[l]]
       IN [t EXCEPT ![layer] = Append(@, oid)]
  ELSE ly

\* Cubie.entity.remove, lines 336-343: take the entity from the renderer
DetachScene(md, sc, ent, oid) ==
  IF md = "3d" /\ ent.mesh THEN sc \ {oid} ELSE sc

\* a detach that looks in the default layer only
DetachLayersMain(md, ly, ent, oid) ==
  IF md = "3d" /\ ent.mesh THEN ly
  ELSE IF md = "2d"
  THEN [l \in DOMAIN ly |->
          LET index == IndexOf(ly[l], oid)
          IN IF index > 0 /\ l = "main" THEN Splice1(ly[l], index) ELSE ly[l]]
  ELSE ly

DetachLayers(md, ly, ent, oid) ==
  IF md = "3d" /\ ent.mesh THEN ly
  ELSE IF md = "2d"
  THEN [l \in DOMAIN ly |->
          LET index == IndexOf(ly[l], oid)
          IN IF index > 0 THEN Splice1(ly[l], index) ELSE ly[l]]
  ELSE ly

\* history: an emit call of the registry, with what get(name) returned and
\* whether the renderer held the entity when it was made
Event(ev, oid, name, ents, sc, ly) ==
  [ev |-> ev, ent |-> oid, got |-> EntityGet(ents, name),
   att |-> Attached(sc, ly, oid)]

Before == [entities |-> entities, scene |-> scene, layers |-> layers,
           systems |-> systems, sysHeap |-> sysHeap]

NoOp == [op |-> "none", name |-> "", ent |-> 0, prev |-> 0, threw |-> FALSE,
         before |-> [entities |-> <<>>, scene |-> {}, layers |-> <<>>,
                     systems |-> <<>>, sysHeap |-> <<>>]]

RegInit ==
  /\ mode \in {"2d", "3d"}
  /\ heap = <<>>
  /\ entities = <<>>
  /\ scene = {}
  /\ layers = InitLayers(mode)
  /\ sysHeap = <<>>
  /\ systems = <<>>
  /\ lastOp = [NoOp EXCEPT !.before = [entities |-> <<>>, scene |-> {},
                                      layers |-> InitLayers(mode),
                                      systems |-> <<>>, sysHeap |-> <<>>]]
  /\ emitted = <<>>

\* Cubie.entity.create(name, config)
Create(name, cfg) ==
  /\ Len(heap) < MaxEntities
  /\ LET ent == NewEntity(name, cfg)
         oid == Len(heap) + 1
     IN /\ heap' = Append(heap, ent)
        /\ entities' = MapSet(entities, name, oid)
        /\ scene' = AttachScene(mode, scene, ent, oid)
        /\ layers' = AttachLayers(mode, layers, ent, oid, cfg.layer)
        /\ emitted' = <<Event("entity:create", oid, name, entities', scene', layers')>>
        /\ lastOp' = [op |-> "create", name |-> name, ent |-> oid,
                      prev |-> EntityGet(entities, name), threw |-> FALSE,
                      before |-> Before]
  /\ UNCHANGED <<mode, sysHeap, systems>>
  /\ UNCHANGED notReg

\* Cubie.entity.remove(name)
Remove(name) ==
  /\ LET oid == EntityGet(entities, name)
     IN /\ lastOp' = [op |-> "remove", name |-> name, ent |-> oid,
                      prev |-> oid, threw |-> FALSE, before |-> Before]
        /\ IF oid = 0
           THEN /\ emitted' = <<>>
                /\ UNCHANGED <<entities, scene, layers>>
           ELSE /\ scene' = DetachScene(mode, scene, heap[oid], oid)
                /\ layers' = DetachLayers(mode, layers, heap[oid], oid)
                /\ entities' = MapDelete(entities, name)
                /\ emitted' = <<Event("entity:remove", oid, name,
                                      entities', scene', layers')>>
  /\ UNCHANGED <<mode, heap, sysHeap, systems>>
  /\ UNCHANGED notReg

\* a system object as the game hands it over; cfg.enabled is "undef" when the
\* object has no such field, and add() then sets it
NewSystem(cfg) ==
  [enabled |-> IF cfg.enabled = "undef" THEN TRUE ELSE cfg.enabled = "true",
   hasInit |-> cfg.hasInit, hasUpdate |-> TRUE,
   hasDestroy |-> cfg.hasDestroy, inits |-> 0, destroys |-> 0, updates |-> 0]

SystemCfgs ==
  [enabled : {"undef", "false"}, hasInit : BOOLEAN, hasDestroy : BOOLEAN]

\* Cubie.system.get
SystemGet(syss, name) == MapGet(syss, name)

\* Cubie.system.add(name, system)
SystemAdd(name, cfg) ==
  /\ Len(sysHeap) < MaxSystems
  /\ LET sys == NewSystem(cfg)
         sid == Len(sysHeap) + 1
     IN /\ systems' = MapSet(systems, name, sid)
        /\ sysHeap' = Append(sysHeap,
                        [sys EXCEPT !.inits = IF sys.hasInit THEN 1 ELSE 0])
        /\ lastOp' = [op |-> "addSystem", name |-> name, ent |-> sid,
                      prev |-> SystemGet(systems, name), threw |-> FALSE,
                      before |-> Before]
  /\ emitted' = <<>>
  /\ UNCHANGED <<mode, heap, entities, scene, layers>>
  /\ UNCHANGED notReg

\* a remove that calls destroy and leaves the system in the table
SystemRemoveKeep(name) ==
  /\ LET sid == SystemGet(systems, name)
     IN /\ sysHeap' = IF sid # 0 /\ sysHeap[sid].hasDestroy
                      THEN [sysHeap EXCEPT ![sid].destroys = @ + 1]
                      ELSE sysHeap
        /\ systems' = systems
        /\ lastOp' = [op |-> "removeSystem", name |-> name, ent |-> sid,
                      prev |-> sid, threw |-> FALSE, before |-> Before]
  /\ emitted' = <<>>
  /\ UNCHANGED <<mode, heap, entities, scene, layers>>
  /\ UNCHANGED notReg

\* Cubie.system.remove(name)
SystemRemove(name) ==
  /\ LET sid == SystemGet(systems, name)
     IN /\ sysHeap' = IF sid # 0 /\ sysHeap[sid].hasDestroy
                      THEN [sysHeap EXCEPT ![sid].destroys = @ + 1]
                      ELSE sysHeap
        /\ systems' = MapDelete(systems, name)
        /\ lastOp' = [op |-> "removeSystem", name |-> name, ent |-> sid,
                      prev |-> sid, threw |-> FALSE, before |-> Before]
  /\ emitted' = <<>>
  /\ UNCHANGED <<mode, heap, entities, scene, layers>>
  /\ UNCHANGED notReg

\* Cubie.system.enable(name) and Cubie.system.disable(name)
SystemEnable(name, flag) ==
  /\ LET sid == SystemGet(systems, name)
     IN /\ sysHeap' = IF sid # 0 THEN [sysHeap EXCEPT ![sid].enabled = flag]
                      ELSE sysHeap
        /\ lastOp' = [op |-> IF flag THEN "enable" ELSE "disable",
                      name |-> name, ent |-> sid, prev |-> sid,
                      threw |-> FALSE, before |-> Before]
  /\ emitted' = <<>>
  /\ UNCHANGED <<mode, heap, entities, scene, layers, systems>>
  /\ UNCHANGED notReg

\* Cubie.camera.follow(entity): puts a new follow system under the fixed
\* name, straight into the map
CameraFollow ==
  /\ Len(sysHeap) < MaxSystems
  /\ LET sid == Len(sysHeap) + 1
     IN /\ systems' = MapSet(systems, "camera-follow", sid)
        /\ sysHeap' = Append(sysHeap,
                        [enabled |-> TRUE, hasInit |-> FALSE, hasUpdate |-> TRUE,
                         hasDestroy |-> FALSE, inits |-> 0, destroys |-> 0,
                         updates |-> 0])
        /\ lastOp' = [op |-> "follow", name |-> "camera-follow", ent |-> sid,
                      prev |-> SystemGet(systems, "camera-follow"),
                      threw |-> FALSE, before |-> Before]
  /\ emitted' = <<>>
  /\ UNCHANGED <<mode, heap, entities, scene, layers>>
  /\ UNCHANGED notReg

RegNext ==
  \/ \E name \in EntityNames, m \in MeshChoice(mode), l \in LayerChoice :
       Create(name, [mesh |-> m, layer |-> l])
  \/ \E name \in EntityNames : Remove(name)

SysNext ==
  \/ \E name \in SystemNames, cfg \in SystemCfgs : SystemAdd(name, cfg)
  \/ \E name \in SystemNames : SystemRemove(name)
  \/ \E name \in SystemNames, flag \in BOOLEAN : SystemEnable(name, flag)
  \/ CameraFollow

----------------------------------------------------------------------------
(* PhysicsSystem *)

\* Numbers are fixed-point, in units of 1/Scale, and every product and
\* quotient is cut towards zero to that unit (the code computes in doubles).
Scale == 100
Gravity == -980          \* PhysicsSystem.gravity = -9.8
DefaultRestitution == 50 \* config.restitution || 0.5
DefaultFriction == 50    \* config.friction || 0.5
DefaultDrag == 1         \* config.drag || 0.01
DefaultRadius == 100     \* config.radius || 1
DefaultMass == 100       \* config.mass || 1
Half == 50               \* the 0.5 of the collision response

Abs(a) == IF a < 0 THEN -a ELSE a
TDiv(a, b) == IF a >= 0 THEN a \div b ELSE -((-a) \div b)
FMul(a, b) == TDiv(a * b, Scale)
FDiv(a, b) == TDiv(a * Scale, b)

RECURSIVE SqrtBetween(_, _, _)
\* the integer r with r * r <= n < (r + 1) * (r + 1), given lo <= r < hi
SqrtBetween(n, lo, hi) ==
  IF hi - lo <= 1 THEN lo
  ELSE LET mid == (lo + hi) \div 2
       IN IF mid * mid <= n THEN SqrtBetween(n, mid, hi)
          ELSE SqrtBetween(n, lo, mid)

\* Math.sqrt of a sum of squares of fixed-point numbers, in the same unit
ISqrt(n) == SqrtBetween(n, 0, IF n < 40000 THEN n + 1 ELSE 40000)

Vec(x, y, z) == [x |-> x, y |-> y, z |-> z]
NoBounds == [on |-> FALSE, minX |-> 0, maxX |-> 0, minZ |-> 0, maxZ |-> 0]

\* PhysicsSystem.addBody(entity, config): the body record
NewBody(oid, cfg) ==
  [entity |-> oid, velocity |-> Vec(0, 0, 0), acceleration |-> Vec(0, 0, 0),
   mass |-> DefaultMass, useGravity |-> cfg.useGravity,
   isStatic |-> cfg.isStatic, restitution |-> DefaultRestitution,
   friction |-> DefaultFriction, drag |-> DefaultDrag,
   radius |-> DefaultRadius, bounds |-> NoBounds]

\* Entity.position.get: the position of the mesh, or the entity's own x and
\* y, which are all a 2D entity keeps
EntityPosition(e) ==
  IF e.mesh THEN [x |-> e.pos.x, y |-> e.pos.y, z |-> e.pos.z]
  ELSE [x |-> e.x, y |-> e.y]

\* Entity.position.set (pos.x || 0 is pos.x when pos.x is a number)
EntityPlaced(e, p) ==
  IF e.mesh THEN [e EXCEPT !.pos = [x |-> p.x, y |-> p.y, z |-> p.z]]
  ELSE [e EXCEPT !.x = p.x, !.y = p.y]

\* entity.position.get() / entity.position.set(p) of the entity oid
PositionGet(h, oid) == EntityPosition(h[oid])
PositionSet(h, oid, p) == [h EXCEPT ![oid] = EntityPlaced(h[oid], p)]

\* PhysicsSystem.update, the body of the forEach for one dynamic body:
\* gravity, velocity, drag, position, ground, bounds, reset of acceleration
IntegrateBody(b, p, g, d) ==
  LET ax == b.acceleration.x
      ay == IF b.useGravity THEN g ELSE b.acceleration.y
      az == b.acceleration.z
      vx1 == FMul(b.velocity.x + FMul(ax, d), Scale - b.drag)
      vy1 == FMul(b.velocity.y + FMul(ay, d), Scale - b.drag)
      vz1 == FMul(b.velocity.z + FMul(az, d), Scale - b.drag)
      px1 == p.x + FMul(vx1, d)
      py1 == p.y + FMul(vy1, d)
      pz1 == p.z + FMul(vz1, d)
      ground == py1 < 0
      py2 == IF ground THEN 0 ELSE py1
      vy2 == IF ground THEN FMul(-vy1, b.restitution) ELSE vy1
      vx2 == IF ground THEN FMul(vx1, Scale - b.friction) ELSE vx1
      vz2 == IF ground THEN FMul(vz1, Scale - b.friction) ELSE vz1
      loX == b.bounds.on /\ px1 < b.bounds.minX
      px2 == IF loX THEN b.bounds.minX ELSE px1
      vx3 == IF loX THEN FMul(vx2, -b.restitution) ELSE vx2
      hiX == b.bounds.on /\ px2 > b.bounds.maxX
      px3 == IF hiX THEN b.bounds.maxX ELSE px2
      vx4 == IF hiX THEN FMul(vx3, -b.restitution) ELSE vx3
      loZ == b.bounds.on /\ pz1 < b.bounds.minZ
      pz2 == IF loZ THEN b.bounds.minZ ELSE pz1
      vz3 == IF loZ THEN FMul(vz2, -b.restitution) ELSE vz2
      hiZ == b.bounds.on /\ pz2 > b.bounds.maxZ
      pz3 == IF hiZ THEN b.bounds.maxZ ELSE pz2
      vz4 == IF hiZ THEN FMul(vz3, -b.restitution) ELSE vz3
  IN [body |-> [b EXCEPT !.velocity = Vec(vx4, vy2, vz4),
                         !.acceleration = Vec(0, 0, 0)],
      pos |-> Vec(px3, py2, pz3)]

RECURSIVE IntegrateAll(_, _, _, _, _)
\* PhysicsSystem.update, lines 922-969: the forEach over the bodies, from
\* index k on; a static body is left as it is
IntegrateAll(bs, h, k, g, d) ==
  IF k > Len(bs) THEN [bodies |-> bs, heap |-> h]
  ELSE IF bs[k].isStatic THEN IntegrateAll(bs, h, k + 1, g, d)
  ELSE LET r == IntegrateBody(bs[k], PositionGet(h, bs[k].entity), g, d)
       IN IntegrateAll([bs EXCEPT ![k] = r.body],
                       PositionSet(h, bs[k].entity, r.pos), k + 1, g, d)

\* PhysicsSystem.checkCollision: do the two bodies collide
Collides(h, a, b) ==
  LET posA == PositionGet(h, a.entity)
      posB == PositionGet(h, b.entity)
      dx == posB.x - posA.x
      dy == posB.y - posA.y
      dz == posB.z - posA.z
      distance == ISqrt(dx * dx + dy * dy + dz * dz)
  IN distance < a.radius + b.radius /\ distance > 0

\* PhysicsSystem.checkCollision, lines 991-1010: the entities pushed apart
Separate(h, a, b) ==
  LET posA == PositionGet(h, a.entity)
      posB == PositionGet(h, b.entity)
      dx == posB.x - posA.x
      dy == posB.y - posA.y
      dz == posB.z - posA.z
      distance == ISqrt(dx * dx + dy * dy + dz * dz)
      nx == FDiv(dx, distance)
      ny == FDiv(dy, distance)
      nz == FDiv(dz, distance)
      overlap == a.radius + b.radius - distance
      newA == Vec(posA.x - FMul(FMul(nx, overlap), Half),
                  posA.y - FMul(FMul(ny, overlap), Half),
                  posA.z - FMul(FMul(nz, overlap), Half))
      newB == Vec(posB.x + FMul(FMul(nx, overlap), Half),
                  posB.y + FMul(FMul(ny, overlap), Half),
                  posB.z + FMul(FMul(nz, overlap), Half))
      h1 == IF a.isStatic THEN h ELSE PositionSet(h, a.entity, newA)
  IN IF b.isStatic THEN h1 ELSE PositionSet(h1, b.entity, newB)

\* the for loops of lines 972-976, indices from 0: the pair (i, j) itself if
\* it is inside the array, else the next pair the loops reach; i = n when the
\* loops are over
RECURSIVE NextPair(_, _, _)
NextPair(i, j, n) ==
  IF i >= n THEN [i |-> n, j |-> n]
  ELSE IF j < n THEN [i |-> i, j |-> j]
  ELSE NextPair(i + 1, i + 2, n)

----------------------------------------------------------------------------
(* TweenSystem *)

\* The game animates the properties of one object (a mesh.scale), one
\* property per call of to(), towards the same end value.
TweenKeys == <<"x", "y", "z">>
TweenEnd == 1000         \* props: the end value, 10
ChainEnd == 0            \* props of the tween an onComplete starts
TweenDuration == 200     \* duration: 2 s
TweenDelays == {0, 100}  \* options.delay: none, or 1 s
TweenDts == {100, 150}   \* dt of a step: 1 s or 1.5 s
Easings == {"linear", "inQuad"}
Completions == {"none", "chain"}
PokeValue == 400         \* what other code writes into a property

Min(a, b) == IF a < b THEN a ELSE b

\* an easing that squares whatever it is given
EaseSquare(kind, t) == FMul(t, t)

\* TweenSystem.easeLinear and easeInQuad
Ease(kind, t) == IF kind = "linear" THEN t ELSE FMul(t, t)

\* a progress that runs past 1
ProgressUncapped(tw, elapsed) == FDiv(elapsed, tw.duration)

\* Math.min(tween.elapsed / tween.duration, 1)
Progress(tw, elapsed) == Min(FDiv(elapsed, tw.duration), Scale)

\* a start value read from the target when the step writes
StartValueLive(tw, tgt) == tgt[tw.key]

\* tween.startValues[key], as the step reads it
StartValue(tw, tgt) == tw.start

\* TweenSystem.to(target, {key: end}, duration, options): the tween record
NewTween(id, key, tgt, end, duration, opts) ==
  [id |-> id, key |-> key, start |-> tgt[key], end |-> end,
   duration |-> duration, elapsed |-> 0, easing |-> opts.easing,
   onComplete |-> opts.onComplete, delay |-> opts.delay, active |-> TRUE]

\* the options of the tween a completion callback starts: every key left out
ChainOptions == [easing |-> "linear", delay |-> 0, onComplete |-> "none"]

\* the options the game passes to to(): at most one key given
TweenOptions ==
  {o \in [easing : Easings, delay : TweenDelays, onComplete : Completions] :
     Cardinality({k \in DOMAIN o : o[k] # ChainOptions[k]}) <= 1}

\* history of a tween, from the moment to() returns it: what to() was given
\* (key, end, duration, easing, delay) and found in the target (snap), the
\* time the steps that visited it were given (fed), the values it wrote
\* (writes, wrote), its calls of onComplete (completes) with the value the
\* callback saw (seen) and the elapsed time before that step (before), and
\* the number of its writes when other code last wrote its property
\* (pokedAt, -1 when never)
NewHist(tw, tgt) ==
  [key |-> tw.key, end |-> tw.end, duration |-> tw.duration,
   easing |-> tw.easing, delay |-> tw.delay, snap |-> tgt[tw.key],
   fed |-> 0, completes |-> 0, seen |-> 0, before |-> 0,
   writes |-> 0, wrote |-> 0, pokedAt |-> -1]

\* the id of the tween that the onComplete of tween id starts
ChainId(id) == id + Len(TweenKeys)

\* TweenSystem.update, the callback of filter for the element at index k of
\* the array being filtered (arr); kept is the array filter is building. A
\* to() called by onComplete pushes onto arr, which is this.tweens until
\* filter returns.
TweenVisit(st, k, d) ==
  LET tw == st.arr[k]
      h == st.hist[tw.id]
  IN IF ~tw.active THEN st
     ELSE IF tw.delay > 0
     THEN [st EXCEPT !.kept = Append(@, [tw EXCEPT !.delay = @ - d]),
                     !.hist[tw.id].fed = @ + d]
     ELSE
       LET elapsed == tw.elapsed + d
           t == Progress(tw, elapsed)
           start == StartValue(tw, st.tgt)
           v == start + FMul(tw.end - start, Ease(tw.easing, t))
           tgt1 == [st.tgt EXCEPT ![tw.key] = v]
           h1 == [h EXCEPT !.fed = @ + d, !.writes = @ + 1, !.wrote = v]
           h2 == [h1 EXCEPT !.completes = @ + 1, !.seen = tgt1[tw.key],
                            !.before = tw.elapsed]
           child == NewTween(ChainId(tw.id), tw.key, tgt1, ChainEnd,
                             tw.duration, ChainOptions)
       IN IF t < Scale
          THEN [st EXCEPT !.kept = Append(@, [tw EXCEPT !.elapsed = elapsed]),
                          !.tgt = tgt1, !.hist[tw.id] = h1]
          ELSE IF tw.onComplete = "chain"
          THEN [arr |-> Append(st.arr, child), kept |-> st.kept, tgt |-> tgt1,
                hist |-> (tw.id :> h2) @@ (child.id :> NewHist(child, tgt1))
                         @@ st.hist]
          ELSE [st EXCEPT !.tgt = tgt1, !.hist[tw.id] = h2]

RECURSIVE TweenFilter(_, _, _, _)
\* Array.prototype.filter: the indices below the length the array had when
\* filter was called, in order
TweenFilter(st, k, n, d) ==
  IF k > n THEN st ELSE TweenFilter(TweenVisit(st, k, d), k + 1, n, d)

\* TweenSystem.update(dt): this.tweens = this.tweens.filter(...)
TweensAfter(tws, tgt, hist, d) ==
  TweenFilter([arr |-> tws, kept |-> <<>>, tgt |-> tgt, hist |-> hist],
              1, Len(tws), d)

TweenInit ==
  /\ target = [k \in {TweenKeys[n] : n \in DOMAIN TweenKeys} |-> 0]
  /\ tweens = <<>>
  /\ thist = <<>>

\* the tweens the game has started itself
Started == {id \in DOMAIN thist : id <= Len(TweenKeys)}

\* cubie.tweens.to(target, {key: TweenEnd}, TweenDuration, opts)
To(opts) ==
  /\ Cardinality(Started) < MaxTweens
  /\ Cardinality(Started) < Len(TweenKeys)
  /\ LET id == Cardinality(Started) + 1
         tw == NewTween(id, TweenKeys[id], target, TweenEnd, TweenDuration, opts)
     IN /\ tweens' = Append(tweens, tw)
        /\ thist' = (id :> NewHist(tw, target)) @@ thist
  /\ UNCHANGED <<target, busVars, regVars, frameVars, partVars, physVars,
                 posVars, lifeVars>>

\* cubie.tweens.update(dt), as the frame calls it
TweenStep(d) ==
  /\ tweens # <<>>
  /\ LET r == TweensAfter(tweens, target, thist, d)
     IN /\ tweens' = r.kept
        /\ target' = r.tgt
        /\ thist' = r.hist
  /\ UNCHANGED <<busVars, regVars, frameVars, partVars, physVars, posVars,
                 lifeVars>>

\* other code writes a property of the target between two steps
Poke(key) ==
  /\ target[key] # PokeValue
  /\ target' = [target EXCEPT ![key] = PokeValue]
  /\ thist' = [id \in DOMAIN thist |->
                 IF thist[id].key = key
                 THEN [thist[id] EXCEPT !.pokedAt = thist[id].writes]
                 ELSE thist[id]]
  /\ UNCHANGED <<tweens, busVars, regVars, frameVars, partVars, physVars,
                 posVars, lifeVars>>

TweenNext ==
  \/ \E opts \in TweenOptions : To(opts)
  \/ \E d \in TweenDts : TweenStep(d)
  \/ Poke(TweenKeys[1])

----------------------------------------------------------------------------
(* ParticleSystem                                                          *)
(*                                                                         *)
(* emitter.timer, dt and particle.life are JavaScript numbers.  A number   *)
(* is held here as <<hi, lo>>, standing for hi * Limb + lo units of 2^-56, *)
(* and every sum and difference is rounded as IEEE 754 binary64 rounds it: *)
(* to 53 significant bits, ties to the even mantissa.                      *)

Limb == 268435456        \* 2^28

\* a multiple of one quarter, which binary64 holds exactly
Quarters(k) == <<k * 67108864, 0>>

\* the spacing of binary64 numbers around x, in units of 2^-56
Ulp(x) ==
  IF x[1] < 33554432 THEN 1
  ELSE IF x[1] < 67108864 THEN 2
  ELSE IF x[1] < 134217728 THEN 4
  ELSE IF x[1] < 268435456 THEN 8
  ELSE IF x[1] < 536870912 THEN 16
  ELSE IF x[1] < 1073741824 THEN 32
  ELSE 64

\* the binary64 number nearest to x, ties to even
DRound(x) ==
  LET u == Ulp(x)
      r == x[2] % u
      down == x[2] - r
      up == IF down + u = Limb THEN <<x[1] + 1, 0>> ELSE <<x[1], down + u>>
  IN IF 2 * r < u THEN <<x[1], down>>
     ELSE IF 2 * r > u THEN up
     ELSE IF (down \div u) % 2 = 0 THEN <<x[1], down>>
     ELSE up

\* a > b
DGreater(a, b) == a[1] > b[1] \/ (a[1] = b[1] /\ a[2] > b[2])

\* a + b
DAdd(a, b) ==
  LET lo == a[2] + b[2]
  IN DRound(<<a[1] + b[1] + (lo \div Limb), lo % Limb>>)

\* a - b, for a >= b
DSub(a, b) ==
  LET lo == a[2] - b[2]
  IN DRound(IF lo < 0 THEN <<a[1] - b[1] - 1, lo + Limb>>
                      ELSE <<a[1] - b[1], lo>>)

\* 1 / emitter.rate for the rates the emitters below are created with:
\* 1 / 10 is 7205759403792794 * 2^-56, the binary64 number nearest to a tenth
Reciprocal(rate) ==
  CASE rate = 10 -> <<26843545, 161061274>>
    [] rate = 4 -> Quarters(1)

DefaultRate == 10            \* options.rate || 10
DefaultLifetime == 8         \* options.lifetime || 2, in quarters of a second
DefaultMaxParticles == 1000  \* options.maxParticles || 1000

\* the options the game creates emitters with; 0 stands for a key left out
EmitterOptions ==
  { [rate |-> 0, maxParticles |-> 0],
    [rate |-> 4, maxParticles |-> 3] }

\* the steps the particle system is updated with, in quarters of a second
StepQuarters == {2, 4}

\* options.key || fallback
OrDefault(v, fallback) == IF v = 0 THEN fallback ELSE v

\* the emitter object createEmitter builds
NewEmitter(id, options) ==
  [id |-> id,
   rate |-> OrDefault(options.rate, DefaultRate),
   lifetime |-> Quarters(DefaultLifetime),
   particles |-> <<>>,
   timer |-> Quarters(0),
   maxParticles |-> OrDefault(options.maxParticles, DefaultMaxParticles),
   enabled |-> TRUE]

\* a test that looks at the timer alone
CanSpawnUncapped(e) == DGreater(e.timer, Reciprocal(e.rate))

\* the test of the spawn loop
CanSpawn(e) ==
  /\ DGreater(e.timer, Reciprocal(e.rate))
  /\ Len(e.particles) < e.maxParticles

\* a pass that clears the timer in the place of taking one interval off it
SpawnOneReset(e) ==
  [e EXCEPT !.timer = Quarters(0),
            !.particles = Append(e.particles, e.lifetime)]

\* one pass through the body of the spawn loop
SpawnOne(e) ==
  [e EXCEPT !.timer = DSub(e.timer, Reciprocal(e.rate)),
            !.particles = Append(e.particles, e.lifetime)]

\* an if in the place of the while
SpawnIf(e) == IF CanSpawn(e) THEN SpawnOne(e) ELSE e

\* while (timer > 1 / rate && particles.length < maxParticles) { ... }
RECURSIVE SpawnLoop(_)
SpawnLoop(e) == IF CanSpawn(e) THEN SpawnLoop(SpawnOne(e)) ELSE e

\* emitter.particles.filter(...): every particle ages by dt, and the ones
\* whose life is then not above zero are dropped
RECURSIVE AgeFilter(_, _)
AgeFilter(ps, d) ==
  IF ps = <<>> THEN <<>>
  ELSE IF DGreater(Head(ps), d)
       THEN <<DSub(Head(ps), d)>> \o AgeFilter(Tail(ps), d)
       ELSE AgeFilter(Tail(ps), d)

\* the body of the forEach of update(dt), for one emitter
EmitterAfter(e, d) ==
  IF ~e.enabled THEN e
  ELSE LET timed == [e EXCEPT !.timer = DAdd(e.timer, d)]
           spawned == SpawnLoop(timed)
       IN [spawned EXCEPT !.particles = AgeFilter(spawned.particles, d)]

\* what one call of update(dt) did to the emitter that became after
HistAfter(h, e, after, q) ==
  LET n == Len(SpawnLoop([e EXCEPT !.timer = DAdd(e.timer, Quarters(q))]).particles)
           - Len(e.particles)
  IN [rate |-> h.rate,
      maxParticles |-> h.maxParticles,
      steps |-> h.steps + 1,
      quarters |-> q,
      spawned |-> n,
      total |-> h.total + n,
      elapsed |-> h.elapsed + q,
      wasFull |-> h.wasFull \/ Len(e.particles) >= e.maxParticles,
      live |-> Len(after.particles)]

PartInit ==
  /\ emitters = <<>>
  /\ phist = <<>>
  /\ psteps = 0

\* cubie.particles.createEmitter(options)
CreateEmitter(options) ==
  /\ Len(phist) < MaxEmitters
  /\ LET e == NewEmitter(Len(phist) + 1, options)
     IN /\ emitters' = Append(emitters, e)
        /\ phist' = Append(phist, [rate |-> e.rate,
                                   maxParticles |-> e.maxParticles,
                                   steps |-> 0, quarters |-> 0, spawned |-> 0,
                                   total |-> 0, elapsed |-> 0, wasFull |-> FALSE,
                                   live |-> 0])
  /\ UNCHANGED <<psteps, busVars, regVars, frameVars, tweenVars, physVars,
                 posVars, lifeVars>>

\* cubie.particles.update(dt), as the frame calls it
ParticleStep(q) ==
  /\ psteps < MaxSteps
  /\ emitters # <<>>
  /\ emitters' = [n \in DOMAIN emitters |-> EmitterAfter(emitters[n], Quarters(q))]
  /\ phist' = [id \in DOMAIN phist |->
                 IF \E n \in DOMAIN emitters : emitters[n].id = id
                 THEN LET n == CHOOSE n \in DOMAIN emitters : emitters[n].id = id
                      IN HistAfter(phist[id], emitters[n], emitters'[n], q)
                 ELSE phist[id]]
  /\ psteps' = psteps + 1
  /\ UNCHANGED <<busVars, regVars, frameVars, tweenVars, physVars, posVars,
                 lifeVars>>

\* cubie.particles.removeEmitter(emitter)
RemoveEmitter(id) ==
  /\ \E n \in DOMAIN emitters : emitters[n].id = id
  /\ emitters' = SelectSeq(emitters, LAMBDA e : e.id # id)
  /\ UNCHANGED <<phist, psteps, busVars, regVars, frameVars, tweenVars,
                 physVars, posVars, lifeVars>>

PartNext ==
  \/ \E options \in EmitterOptions : CreateEmitter(options)
  \/ \E q \in StepQuarters : ParticleStep(q)
  \/ \E id \in DOMAIN phist : RemoveEmitter(id)

\* the emitters of a game that never fills them: the default rate or four a
\* second, the default maximum
SpawnOptions ==
  { [rate |-> 0, maxParticles |-> 0],
    [rate |-> 4, maxParticles |-> 0] }

\* the frame times of that game, in quarters of a second: a frame may be
\* short or stalled
SpawnQuarters == {1, 2, 4}

SpawnNext ==
  \/ \E options \in SpawnOptions : CreateEmitter(options)
  \/ \E q \in SpawnQuarters : ParticleStep(q)

----------------------------------------------------------------------------
(* The game of the frame loop: what it builds before it starts the engine *)

\* the spheres the game builds, in this order, one unit and a half apart on
\* the x axis (each overlaps the next one, their radius being 1)
SphereNames == <<"player", "coin", "wall", "crate", "rock">>
SphereX(n) == 150 * (n - 1)
SphereTags(name) ==
  CASE name = "player" -> {"player"}
    [] name = "coin" -> {"collectible"}
    [] OTHER -> {}

\* config.physics.isStatic of the n-th sphere: the player and the coin move
StaticChoice(n) == IF n <= 2 THEN {FALSE} ELSE BOOLEAN

HookKinds == {"preUpdate", "postUpdate", "preRender", "postRender"}
HookOrder == <<"preUpdate", "postUpdate", "preRender", "postRender">>
Dts == {2}           \* clock.getDelta(): 0.02 s between two frames

Idle == [ph |-> "idle", i |-> 0, j |-> 0]
At(ph) == [ph |-> ph, i |-> 0, j |-> 0]
BeforeStart == pc = Idle /\ ~isRunning /\ frameCount = 0

FrameInit ==
  /\ isRunning = FALSE
  /\ isPaused = FALSE
  /\ pending = 0
  /\ frameCount = 0
  /\ time = 0
  /\ dt = 0
  /\ origin = "raf"
  /\ pc = Idle
  /\ hooks = [k \in HookKinds |-> <<>>]
  /\ bodies = <<>>
  /\ ftrace = <<>>
  /\ removedNow = {}
  /\ touched = {}
  /\ stall = 0
  /\ pausedTotal = 0
  /\ pairsSeen = <<>>

busRest == <<stack, done, trace, stamp, onceCalls, topMut>>
loopVars == <<isRunning, isPaused, pending, frameCount, time, dt, origin,
              stall, pausedTotal>>

HookCount == Len(hooks["preUpdate"]) + Len(hooks["postUpdate"])
             + Len(hooks["preRender"]) + Len(hooks["postRender"])

\* The game's script runs in this order: the spheres, the hooks, the systems,
\* the collision handler, and then start().

\* cubie.primitive.sphere(name, {position, physics}), then addTag and, for
\* the collectible, addScript: entity.create, position.set, physics.addBody
SpawnSphere(static) ==
  /\ BeforeStart
  /\ mode = "3d"
  /\ HookCount = 0 /\ sysHeap = <<>> /\ events = <<>>
  /\ Len(heap) < MaxBodies
  /\ Len(heap) < Len(SphereNames)
  /\ LET oid == Len(heap) + 1
         name == SphereNames[oid]
         ent == [NewEntity(name, [mesh |-> TRUE, layer |-> ""]) EXCEPT
                   !.pos = Vec(SphereX(oid), 0, 0),
                   !.tags = SphereTags(name),
                   !.scripts = IF name = "coin" THEN <<1>> ELSE <<>>]
     IN /\ heap' = Append(heap, ent)
        /\ entities' = MapSet(entities, name, oid)
        /\ scene' = AttachScene(mode, scene, ent, oid)
        /\ layers' = AttachLayers(mode, layers, ent, oid, "")
        /\ bodies' = Append(bodies, NewBody(oid, [useGravity |-> TRUE,
                                                  isStatic |-> static]))
        /\ emitted' = <<Event("entity:create", oid, name, entities', scene', layers')>>
        /\ lastOp' = [op |-> "create", name |-> name, ent |-> oid,
                      prev |-> EntityGet(entities, name), threw |-> FALSE,
                      before |-> Before]
  /\ UNCHANGED <<mode, sysHeap, systems, busVars, loopVars, pc, hooks, ftrace,
                 removedNow, touched,
                 pairsSeen, extVars>>

\* cubie.hook.preUpdate(fn) and its three siblings; the function is named by
\* the number of the registration. The game registers its hooks kind by
\* kind, in the order of HookOrder.
AddHook(kind) ==
  /\ BeforeStart
  /\ sysHeap = <<>> /\ events = <<>>
  /\ HookCount < MaxHooks
  /\ \A m, n \in 1..Len(HookOrder) :
       (HookOrder[m] = kind /\ m < n) => hooks[HookOrder[n]] = <<>>
  /\ hooks' = [hooks EXCEPT ![kind] = Append(@, HookCount + 1)]
  /\ UNCHANGED <<busVars, regVars, loopVars, pc, bodies, ftrace, removedNow,
                 touched,
                 pairsSeen, extVars>>

\* cubie.system.add('ai', system) of the game
AddGameSystem(cfg) ==
  /\ BeforeStart
  /\ events = <<>>
  /\ ~MapHas(systems, "ai")
  /\ Len(sysHeap) < MaxGameSystems
  /\ SystemAdd("ai", cfg)

\* cubie.camera.follow(player) of the game
AddCameraFollow ==
  /\ BeforeStart
  /\ events = <<>>
  /\ ~MapHas(systems, "camera-follow")
  /\ Len(sysHeap) < MaxGameSystems
  /\ CameraFollow

\* cubie.events.on('collision', handler), lines 1870-1897: the handler that
\* destroys the collectible a player touches
SubscribeCollect ==
  /\ BeforeStart
  /\ "collision" \notin DOMAIN events
  /\ events' = OnResult(events, "collision", Sub(User("collect"), stamp + 1, "collision"))
  /\ stamp' = stamp + 1
  /\ UNCHANGED <<stack, done, trace, onceCalls, topMut, regVars, frameVars, extVars>>

\* cubie.events.on('collision', handler) with a handler that, when a player
\* touches a collectible, calls cubie.physics.removeBody(collectible) and
\* then collectible.destroy()
SubscribeRelease ==
  /\ BeforeStart
  /\ "collision" \notin DOMAIN events
  /\ events' = OnResult(events, "collision", Sub(User("release"), stamp + 1, "collision"))
  /\ stamp' = stamp + 1
  /\ UNCHANGED <<stack, done, trace, onceCalls, topMut, regVars, frameVars, extVars>>

----------------------------------------------------------------------------
(* Cubie.start / stop / pause / resume / loop / update *)

\* history: one call made by the frame; n is the script's place in its entity
Call(ph, id, n) == [ph |-> ph, id |-> id, n |-> n]

\* a loop that steps the tweens before the particles
PhaseAfterSwapped(ph) ==
  CASE ph = "preUpdate" -> "input"
    [] ph = "input" -> "physics"
    [] ph = "physics" -> "pairs"
    [] ph = "pairs" -> "tweens"
    [] ph = "tweens" -> "particles"
    [] ph = "particles" -> "systems"
    [] ph = "systems" -> "entities"
    [] ph = "entities" -> "postUpdate"
    [] ph = "postUpdate" -> "preRender"
    [] ph = "preRender" -> "render"
    [] ph = "render" -> "postRender"
    [] ph = "postRender" -> "perf"

\* the order of the statements of loop() (lines 212-231) and update()
\* (lines 235-259); "pairs" is the second half of physics.update
PhaseAfter(ph) ==
  CASE ph = "preUpdate" -> "input"
    [] ph = "input" -> "physics"
    [] ph = "physics" -> "pairs"
    [] ph = "pairs" -> "particles"
    [] ph = "particles" -> "tweens"
    [] ph = "tweens" -> "systems"
    [] ph = "systems" -> "entities"
    [] ph = "entities" -> "postUpdate"
    [] ph = "postUpdate" -> "preRender"
    [] ph = "preRender" -> "render"
    [] ph = "render" -> "postRender"
    [] ph = "postRender" -> "perf"

\* loop(), lines 207-210, when it is neither stopped nor paused: the frame
\* begins
BeginFrame(org) ==
  /\ \E d \in Dts : dt' = stall + d /\ time' = time + stall + d
  /\ stall' = 0
  /\ pausedTotal' = pausedTotal + stall
  /\ frameCount' = frameCount + 1
  /\ origin' = org
  /\ pc' = At("preUpdate")
  /\ ftrace' = <<>>
  /\ removedNow' = {}
  /\ touched' = {}
  /\ pairsSeen' = <<>>

\* Cubie.start(): returns at once when running; else sets the flags and calls
\* loop(), which asks for the next callback and runs the first frame before
\* start() publishes 'start' (no subscriber)
Start ==
  /\ pc = Idle
  /\ frameCount < MaxFrames
  /\ pending < MaxPending
  /\ IF isRunning
     THEN UNCHANGED frameVars
     ELSE /\ isRunning' = TRUE
          /\ isPaused' = FALSE
          /\ pending' = pending + 1
          /\ BeginFrame("start")
          /\ UNCHANGED <<hooks, bodies>>
  /\ UNCHANGED <<busVars, regVars, extVars>>

\* Cubie.stop(): publishes 'stop' (no subscriber)
Stop ==
  /\ pc = Idle
  /\ isRunning
  /\ isRunning' = FALSE
  /\ UNCHANGED <<isPaused, pending, frameCount, time, dt, origin, pc, hooks,
                 bodies, ftrace, removedNow, touched, busVars, regVars,
                 stall, pausedTotal, pairsSeen, extVars>>

\* Cubie.pause(), also on visibilitychange: publishes 'pause' (no subscriber)
Pause ==
  /\ pc = Idle
  /\ isRunning
  /\ isPaused' = TRUE
  /\ UNCHANGED <<isRunning, pending, frameCount, time, dt, origin, pc, hooks,
                 bodies, ftrace, removedNow, touched, busVars, regVars,
                 stall, pausedTotal, pairsSeen, extVars>>

\* Cubie.resume(), also on visibilitychange: publishes 'resume' (no subscriber)
Resume ==
  /\ pc = Idle
  /\ isRunning
  /\ isPaused' = FALSE
  /\ UNCHANGED <<isRunning, pending, frameCount, time, dt, origin, pc, hooks,
                 bodies, ftrace, removedNow, touched, busVars, regVars,
                 stall, pausedTotal, pairsSeen, extVars>>

\* a callback that leaves the request for the next one to the end of the
\* frame it runs
RafAsksLast ==
  /\ pc = Idle
  /\ pending > 0
  /\ (isRunning /\ ~isPaused) => frameCount < MaxFrames
  /\ pending' = pending - 1
  /\ IF ~isRunning
     THEN UNCHANGED <<isRunning, isPaused, frameCount, time, dt, origin, pc,
                      hooks, bodies, ftrace, removedNow, touched, stall,
                      pausedTotal, pairsSeen>>
     ELSE IF isPaused
     THEN /\ \E d \in Dts : stall + d <= MaxStall /\ stall' = stall + d
          /\ UNCHANGED <<isRunning, isPaused, frameCount, time, dt, origin,
                         pc, hooks, bodies, ftrace, removedNow, touched,
                         pausedTotal, pairsSeen>>
     ELSE /\ BeginFrame("raf")
          /\ UNCHANGED <<isRunning, isPaused, hooks, bodies>>
  /\ UNCHANGED <<busVars, regVars, extVars>>

\* a callback that asks for the next one before it looks at isRunning
RafKeepsAsking ==
  /\ pc = Idle
  /\ pending > 0
  /\ (isRunning /\ ~isPaused) => frameCount < MaxFrames
  /\ IF ~isRunning
     THEN UNCHANGED <<isRunning, isPaused, pending, frameCount, time, dt,
                      origin, pc, hooks, bodies, ftrace, removedNow, touched,
                      stall, pausedTotal, pairsSeen>>
     ELSE IF isPaused
     THEN /\ \E d \in Dts : stall + d <= MaxStall /\ stall' = stall + d
          /\ UNCHANGED <<isRunning, isPaused, pending, frameCount, time, dt,
                         origin, pc, hooks, bodies, ftrace, removedNow,
                         touched, pausedTotal, pairsSeen>>
     ELSE /\ BeginFrame("raf")
          /\ UNCHANGED <<isRunning, isPaused, pending, hooks, bodies>>
  /\ UNCHANGED <<busVars, regVars, extVars>>

\* a callback that does not look at isPaused
RafIgnoringPause ==
  /\ pc = Idle
  /\ pending > 0
  /\ isRunning => frameCount < MaxFrames
  /\ IF ~isRunning
     THEN /\ pending' = pending - 1
          /\ UNCHANGED <<isRunning, isPaused, frameCount, time, dt, origin, pc,
                         hooks, bodies, ftrace, removedNow, touched, stall,
                         pausedTotal, pairsSeen>>
     ELSE /\ BeginFrame("raf")
          /\ UNCHANGED <<isRunning, isPaused, pending, hooks, bodies>>
  /\ UNCHANGED <<busVars, regVars, extVars>>

\* the display refresh runs one callback, one refresh interval after the
\* callback before it: loop() returns when stopped, else asks for the next
\* callback, returns when paused (the interval is then left to the next
\* clock.getDelta()), else runs a frame
Raf ==
  /\ pc = Idle
  /\ pending > 0
  /\ (isRunning /\ ~isPaused) => frameCount < MaxFrames
  /\ IF ~isRunning
     THEN /\ pending' = pending - 1
          /\ UNCHANGED <<isRunning, isPaused, frameCount, time, dt, origin, pc,
                         hooks, bodies, ftrace, removedNow, touched, stall,
                         pausedTotal, pairsSeen>>
     ELSE IF isPaused
     THEN /\ \E d \in Dts : stall + d <= MaxStall /\ stall' = stall + d
          /\ UNCHANGED <<isRunning, isPaused, pending, frameCount, time, dt,
                         origin, pc, hooks, bodies, ftrace, removedNow,
                         touched, pausedTotal, pairsSeen>>
     ELSE /\ BeginFrame("raf")
          /\ UNCHANGED <<isRunning, isPaused, pending, hooks, bodies>>
  /\ UNCHANGED <<busVars, regVars, extVars>>

\* hooks.<kind>.forEach(fn => fn(...)): one hook function is called
HookCall ==
  /\ pc.ph \in HookKinds
  /\ pc.i < Len(hooks[pc.ph])
  /\ ftrace' = Append(ftrace, Call(pc.ph, hooks[pc.ph][pc.i + 1], 0))
  /\ pc' = [pc EXCEPT !.i = @ + 1]
  /\ UNCHANGED <<busVars, regVars, loopVars, hooks, bodies, removedNow, touched,
                 pairsSeen, extVars>>

ListLen(ph) ==
  CASE ph \in HookKinds -> Len(hooks[ph])
    [] ph = "systems" -> Len(systems)
    [] ph = "entities" -> Len(entities)

\* a forEach of the frame has visited every element: the next statement
ListDone ==
  /\ pc.ph \in HookKinds \cup {"systems", "entities"}
  /\ pc.i >= ListLen(pc.ph)
  /\ pc' = At(PhaseAfter(pc.ph))
  /\ UNCHANGED <<busVars, regVars, loopVars, hooks, bodies, ftrace, removedNow,
                 touched,
                 pairsSeen, extVars>>

\* this.input.update(dt): clears the pressed / released tables
InputUpdate ==
  /\ pc.ph = "input"
  /\ ftrace' = Append(ftrace, Call("input", 0, 0))
  /\ pc' = At(PhaseAfter(pc.ph))
  /\ UNCHANGED <<busVars, regVars, loopVars, hooks, bodies, removedNow, touched,
                 pairsSeen, extVars>>

\* where the pairwise loops stand, or the statement after physics.update
PairsOrOn(i, j, n) ==
  LET np == NextPair(i, j, n)
  IN IF np.i >= n THEN At(PhaseAfter("pairs"))
     ELSE [ph |-> "pairs", i |-> np.i, j |-> np.j]

\* this.physics.update(dt), lines 919-969: every body is integrated
PhysicsUpdate ==
  /\ pc.ph = "physics"
  /\ LET r == IntegrateAll(bodies, heap, 1, gravity, dt)
     IN /\ bodies' = r.bodies
        /\ heap' = r.heap
        /\ pc' = PairsOrOn(0, 1, Len(r.bodies))
  /\ ftrace' = Append(ftrace, Call("physics", 0, 0))
  /\ UNCHANGED <<busVars, mode, entities, scene, layers, sysHeap, systems,
                 lastOp, emitted, loopVars, hooks, removedNow, touched,
                 pairsSeen, extVars>>

\* entities.find(e => e.hasTag(tag)) over [bodyA.entity, bodyB.entity];
\* 0 when none has the tag
FindTagged(h, a, b, tag) ==
  IF tag \in h[a].tags THEN a
  ELSE IF tag \in h[b].tags THEN b
  ELSE 0

\* the name the game's collision handler passes to entity.remove (through
\* collectible.destroy()), "" when it removes nothing
Collected(h, a, b) ==
  IF FindTagged(h, a, b, "player") # 0 /\ FindTagged(h, a, b, "collectible") # 0
  THEN h[FindTagged(h, a, b, "collectible")].name
  ELSE ""

\* is the named handler subscribed to 'collision'
HasHandler(id) ==
  /\ "collision" \in DOMAIN events
  /\ \E k \in DOMAIN events["collision"] : events["collision"][k].cb = User(id)

\* PhysicsSystem.removeBody(entity): a new array without the entity's bodies
RemoveBody(bs, oid) ==
  LET Keeps(b) == b.entity # oid
  IN SelectSeq(bs, Keeps)

\* does emit('collision', ...) reach the game's handler
HasCollect == "collision" \in DOMAIN events /\ events["collision"] # <<>>

\* this.checkCollision(this.bodies[i], this.bodies[j]) for the pair the
\* loops stand at: the positions are read, a colliding pair is pushed apart
\* and 'collision' is published, whose handler may remove an entity
PairCheck ==
  /\ pc.ph = "pairs"
  /\ LET a == bodies[pc.i + 1]
         b == bodies[pc.j + 1]
         hit == Collides(heap, a, b)
         name == IF hit /\ HasCollect THEN Collected(heap, a.entity, b.entity)
                 ELSE ""
         gone == IF name = "" THEN 0 ELSE EntityGet(entities, name)
         late == {a.entity, b.entity} \cap removedNow
     IN /\ heap' = IF hit THEN Separate(heap, a, b) ELSE heap
        /\ touched' = touched
             \cup {[ent |-> e, how |-> "read"] : e \in late}
             \cup {[ent |-> e, how |-> "collision"] : e \in IF hit THEN late ELSE {}}
        /\ IF gone # 0
           THEN /\ scene' = DetachScene(mode, scene, heap[gone], gone)
                /\ layers' = DetachLayers(mode, layers, heap[gone], gone)
                /\ entities' = MapDelete(entities, name)
                /\ emitted' = <<Event("entity:remove", gone, name,
                                      entities', scene', layers')>>
                /\ lastOp' = [op |-> "remove", name |-> name, ent |-> gone,
                              prev |-> gone, threw |-> FALSE, before |-> Before]
                /\ removedNow' = removedNow \cup {gone}
           ELSE UNCHANGED <<scene, layers, entities, emitted, lastOp, removedNow>>
        /\ bodies' = IF gone # 0 /\ HasHandler("release")
                     THEN RemoveBody(bodies, gone) ELSE bodies
        /\ pairsSeen' = Append(pairsSeen, <<a.entity, b.entity>>)
        /\ pc' = PairsOrOn(pc.i, pc.j + 1, Len(bodies'))
  /\ UNCHANGED <<busVars, mode, sysHeap, systems, loopVars, hooks, ftrace, extVars>>

\* this.particles.update(dt); the game of the frame loop creates no emitter,
\* so the forEach of the update has nothing to visit
ParticlesUpdate ==
  /\ pc.ph = "particles"
  /\ ftrace' = Append(ftrace, Call("particles", 0, 0))
  /\ pc' = At(PhaseAfter(pc.ph))
  /\ UNCHANGED <<busVars, regVars, loopVars, hooks, bodies, removedNow, touched,
                 pairsSeen, extVars>>

\* this.tweens.update(dt)
TweensUpdate ==
  /\ pc.ph = "tweens"
  /\ ftrace' = Append(ftrace, Call("tweens", 0, 0))
  /\ pc' = At(PhaseAfter(pc.ph))
  /\ LET r == TweensAfter(tweens, target, thist, dt)
     IN /\ tweens' = r.kept
        /\ target' = r.tgt
        /\ thist' = r.hist
  /\ UNCHANGED <<busVars, regVars, loopVars, hooks, bodies, removedNow, touched,
                 pairsSeen, partVars, physVars, posVars, lifeVars>>

\* a forEach that updates every system, whatever its flag
SystemCallAlways ==
  /\ pc.ph = "systems"
  /\ pc.i < Len(systems)
  /\ LET sid == systems[pc.i + 1].val
     IN /\ ftrace' = Append(ftrace, Call("system", sid, 0))
        /\ sysHeap' = [sysHeap EXCEPT ![sid].updates = @ + 1]
  /\ pc' = [pc EXCEPT !.i = @ + 1]
  /\ UNCHANGED <<busVars, mode, heap, entities, scene, layers, systems, lastOp,
                 emitted, loopVars, hooks, bodies, removedNow, touched,
                 pairsSeen, extVars>>

\* this.systems.forEach: the next system of the map, updated when it is
\* enabled and has an update
SystemCall ==
  /\ pc.ph = "systems"
  /\ pc.i < Len(systems)
  /\ LET sid == systems[pc.i + 1].val
         runs == sysHeap[sid].enabled /\ sysHeap[sid].hasUpdate
     IN /\ ftrace' = IF runs THEN Append(ftrace, Call("system", sid, 0))
                     ELSE ftrace
        /\ sysHeap' = IF runs THEN [sysHeap EXCEPT ![sid].updates = @ + 1]
                      ELSE sysHeap
  /\ pc' = [pc EXCEPT !.i = @ + 1]
  /\ UNCHANGED <<busVars, mode, heap, entities, scene, layers, systems, lastOp,
                 emitted, loopVars, hooks, bodies, removedNow, touched,
                 pairsSeen, extVars>>

\* Entity.update(dt): every script of the entity, in order
ScriptCalls(oid, scripts) ==
  [n \in 1..Len(scripts) |-> Call("script", oid, n)]

\* this.entities.forEach: the next entity of the map, updated when enabled
EntityCall ==
  /\ pc.ph = "entities"
  /\ pc.i < Len(entities)
  /\ LET oid == entities[pc.i + 1].val
     IN /\ ftrace' = IF heap[oid].enabled
                     THEN ftrace \o ScriptCalls(oid, heap[oid].scripts)
                     ELSE ftrace
        /\ touched' = IF oid \in removedNow
                      THEN touched \cup {[ent |-> oid, how |-> "script"]}
                      ELSE touched
  /\ pc' = [pc EXCEPT !.i = @ + 1]
  /\ UNCHANGED <<busVars, regVars, loopVars, hooks, bodies, removedNow,
                 pairsSeen, extVars>>

\* this.render(): the renderer draws the scene
Render ==
  /\ pc.ph = "render"
  /\ ftrace' = Append(ftrace, Call("render", 0, 0))
  /\ pc' = At(PhaseAfter(pc.ph))
  /\ UNCHANGED <<busVars, regVars, loopVars, hooks, bodies, removedNow, touched,
                 pairsSeen, extVars>>

\* this.performance.update(), the last statement of loop(); a loop() called
\* by start() returns into it, which publishes 'start' (no subscriber)
FrameEnd ==
  /\ pc.ph = "perf"
  /\ pc' = Idle
  /\ UNCHANGED <<busVars, regVars, loopVars, hooks, bodies, ftrace, removedNow,
                 touched,
                 pairsSeen, extVars>>

\* Between two frames (a timer, a key handler, the console) the game calls
\* the system table and sets the flag of an entity.

\* cubie.system.remove(name), called outside the frame
GameSystemRemove(name) ==
  /\ pc = Idle /\ isRunning
  /\ SystemRemove(name)

\* cubie.system.enable(name) / disable(name), called outside the frame
GameSystemEnable(name, flag) ==
  /\ pc = Idle /\ isRunning
  /\ SystemEnable(name, flag)

\* cubie.entity.get(name).enabled = flag, called outside the frame
GameEntityEnable(name, flag) ==
  /\ pc = Idle /\ isRunning
  /\ EntityGet(entities, name) # 0
  /\ heap' = [heap EXCEPT ![EntityGet(entities, name)].enabled = flag]
  /\ UNCHANGED <<mode, entities, scene, layers, sysHeap, systems, lastOp,
                 emitted, busVars, frameVars, extVars>>

\* the frame loop of a game that changes its systems between the frames
SchedNext ==
  \/ Len(heap) < 2 /\ SpawnSphere(FALSE)
  \/ \E cfg \in SystemCfgs : AddGameSystem(cfg)
  \/ AddCameraFollow
  \/ \E name \in SystemNames : GameSystemRemove(name)
  \/ \E name \in SystemNames, flag \in BOOLEAN : GameSystemEnable(name, flag)
  \/ \E flag \in BOOLEAN : GameEntityEnable("coin", flag)
  \/ Start
  \/ Raf
  \/ ListDone
  \/ InputUpdate
  \/ PhysicsUpdate
  \/ PairCheck
  \/ ParticlesUpdate
  \/ TweensUpdate
  \/ SystemCall
  \/ EntityCall
  \/ Render
  \/ FrameEnd

\* the frame loop of a game whose collision handler removes bodies
PairsNext ==
  \/ \E static \in StaticChoice(Len(heap) + 1) : SpawnSphere(static)
  \/ SubscribeRelease
  \/ Start
  \/ Raf
  \/ ListDone
  \/ InputUpdate
  \/ PhysicsUpdate
  \/ PairCheck
  \/ ParticlesUpdate
  \/ TweensUpdate
  \/ EntityCall
  \/ Render
  \/ FrameEnd

\* start, stop, pause and resume against the display refresh, in a game
\* that has hooks only
LoopNext ==
  \/ \E kind \in HookKinds : AddHook(kind)
  \/ Start
  \/ Stop
  \/ Pause
  \/ Resume
  \/ Raf
  \/ HookCall
  \/ ListDone
  \/ InputUpdate
  \/ PhysicsUpdate
  \/ ParticlesUpdate
  \/ TweensUpdate
  \/ Render
  \/ FrameEnd

\* the frame loop of the game of spheres, hooks, systems and collision
\* handler, once it is started
FrameNext ==
  \/ \E static \in StaticChoice(Len(heap) + 1) : SpawnSphere(static)
  \/ \E kind \in HookKinds : AddHook(kind)
  \/ \E en \in {"undef", "false"} :
       AddGameSystem([enabled |-> en, hasInit |-> FALSE, hasDestroy |-> FALSE])
  \/ AddCameraFollow
  \/ SubscribeCollect
  \/ Start
  \/ Raf
  \/ HookCall
  \/ ListDone
  \/ InputUpdate
  \/ PhysicsUpdate
  \/ PairCheck
  \/ ParticlesUpdate
  \/ TweensUpdate
  \/ SystemCall
  \/ EntityCall
  \/ Render
  \/ FrameEnd

----------------------------------------------------------------------------
(* pause() and resume(), called by the game and by the page *)

LifeInit == lifeHist = [hidden |-> FALSE, held |-> FALSE, threw |-> 0]

\* cubie.pause() called by the game, between two frames
GamePause ==
  /\ pc = Idle
  /\ isRunning
  /\ ~lifeHist.held
  /\ isPaused' = TRUE
  /\ lifeHist' = [lifeHist EXCEPT !.held = TRUE]
  /\ UNCHANGED <<isRunning, pending, frameCount, time, dt, origin, pc, hooks,
                 bodies, ftrace, removedNow, touched, busVars, regVars,
                 stall, pausedTotal, pairsSeen, tweenVars, partVars, physVars,
                 posVars>>

\* cubie.resume() called by the game that paused
GameResume ==
  /\ pc = Idle
  /\ isRunning
  /\ lifeHist.held
  /\ isPaused' = FALSE
  /\ lifeHist' = [lifeHist EXCEPT !.held = FALSE]
  /\ UNCHANGED <<isRunning, pending, frameCount, time, dt, origin, pc, hooks,
                 bodies, ftrace, removedNow, touched, busVars, regVars,
                 stall, pausedTotal, pairsSeen, tweenVars, partVars, physVars,
                 posVars>>

\* the listener of 'visibilitychange', lines 163-169: pause() when the page
\* has become hidden, resume() when it has become visible
VisibilityChange ==
  /\ pc = Idle
  /\ lifeHist' = [lifeHist EXCEPT !.hidden = ~@]
  /\ isPaused' = ~lifeHist.hidden
  /\ UNCHANGED <<isRunning, pending, frameCount, time, dt, origin, pc, hooks,
                 bodies, ftrace, removedNow, touched, busVars, regVars,
                 stall, pausedTotal, pairsSeen, tweenVars, partVars, physVars,
                 posVars>>

\* a game of one sphere and hooks that pauses and resumes, in a page that is
\* hidden and shown
VisNext ==
  \/ Len(heap) < 1 /\ SpawnSphere(FALSE)
  \/ \E kind \in HookKinds : AddHook(kind)
  \/ Start
  \/ GamePause
  \/ GameResume
  \/ VisibilityChange
  \/ Raf
  \/ HookCall
  \/ ListDone
  \/ InputUpdate
  \/ PhysicsUpdate
  \/ ParticlesUpdate
  \/ TweensUpdate
  \/ EntityCall
  \/ Render
  \/ FrameEnd

----------------------------------------------------------------------------
(* A callee of the frame throws *)

\* a forEach whose callback catches what the callee throws: the next element
ThrownCaught(p) == [p EXCEPT !.i = @ + 1]

\* where loop() stands after a callee threw at p: loop(), update() and their
\* forEach callbacks have no try, so the exception leaves loop() and the
\* callback of requestAnimationFrame (or start()) ends
Thrown(p) == Idle

\* history: the running frame was left by an exception
Raised == Call("throw", 0, 0)

\* hooks.<kind>.forEach(fn => fn(...)): the hook function called throws
HookThrow ==
  /\ pc.ph \in HookKinds
  /\ pc.i < Len(hooks[pc.ph])
  /\ ftrace' = ftrace \o <<Call(pc.ph, hooks[pc.ph][pc.i + 1], 0), Raised>>
  /\ pc' = Thrown(pc)
  /\ lifeHist' = [lifeHist EXCEPT !.threw = frameCount]
  /\ UNCHANGED <<busVars, regVars, loopVars, hooks, bodies, removedNow, touched,
                 pairsSeen, tweenVars, partVars, physVars, posVars>>

\* this.systems.forEach: the update of the next system throws
SystemThrow ==
  /\ pc.ph = "systems"
  /\ pc.i < Len(systems)
  /\ LET sid == systems[pc.i + 1].val
     IN /\ sysHeap[sid].enabled /\ sysHeap[sid].hasUpdate
        /\ ftrace' = ftrace \o <<Call("system", sid, 0), Raised>>
        /\ sysHeap' = [sysHeap EXCEPT ![sid].updates = @ + 1]
  /\ pc' = Thrown(pc)
  /\ lifeHist' = [lifeHist EXCEPT !.threw = frameCount]
  /\ UNCHANGED <<busVars, mode, heap, entities, scene, layers, systems, lastOp,
                 emitted, loopVars, hooks, bodies, removedNow, touched,
                 pairsSeen, tweenVars, partVars, physVars, posVars>>

\* this.entities.forEach: the n-th script of the next entity throws
ScriptThrow ==
  /\ pc.ph = "entities"
  /\ pc.i < Len(entities)
  /\ LET oid == entities[pc.i + 1].val
     IN /\ heap[oid].enabled
        /\ \E n \in 1..Len(heap[oid].scripts) :
              ftrace' = ftrace
                        \o SubSeq(ScriptCalls(oid, heap[oid].scripts), 1, n)
                        \o <<Raised>>
  /\ pc' = Thrown(pc)
  /\ lifeHist' = [lifeHist EXCEPT !.threw = frameCount]
  /\ UNCHANGED <<busVars, regVars, loopVars, hooks, bodies, removedNow, touched,
                 pairsSeen, tweenVars, partVars, physVars, posVars>>

ThrowNext ==
  \/ Len(heap) < 2 /\ SpawnSphere(FALSE)
  \/ \E kind \in HookKinds : AddHook(kind)
  \/ AddGameSystem([enabled |-> "undef", hasInit |-> FALSE, hasDestroy |-> FALSE])
  \/ Start
  \/ Raf
  \/ HookCall
  \/ HookThrow
  \/ ListDone
  \/ InputUpdate
  \/ PhysicsUpdate
  \/ PairCheck
  \/ ParticlesUpdate
  \/ TweensUpdate
  \/ SystemCall
  \/ SystemThrow
  \/ EntityCall
  \/ ScriptThrow
  \/ Render
  \/ FrameEnd

----------------------------------------------------------------------------
(* PhysicsSystem, stepped by a game that calls update itself               *)
(*                                                                         *)
(* The game builds spheres with cubie.primitive.sphere(name, {position,    *)
(* physics}), subscribes nothing to 'collision', and then calls            *)
(* applyForce, setGravity and physics.update(dt).  The entity of body n    *)
(* is entity n.                                                            *)

Undefined == -1          \* a key the config leaves out

\* config.key || fallback, for a key that may be left out or given as 0
OrElse(v, fallback) == IF v = Undefined THEN fallback ELSE OrDefault(v, fallback)

\* the physics configs the game passes: every kind of body for its first
\* sphere, the one it pushes, and a default or a static body for the others
PhysConfigs(n) ==
  IF n = 1
  THEN { [isStatic |-> FALSE, useGravity |-> TRUE, restitution |-> Undefined],
         [isStatic |-> FALSE, useGravity |-> TRUE, restitution |-> 0],
         [isStatic |-> FALSE, useGravity |-> TRUE, restitution |-> 100],
         [isStatic |-> FALSE, useGravity |-> FALSE, restitution |-> Undefined] }
  ELSE { [isStatic |-> FALSE, useGravity |-> TRUE, restitution |-> Undefined],
         [isStatic |-> TRUE, useGravity |-> TRUE, restitution |-> Undefined] }

\* the positions the game gives its spheres: the first on the ground or just
\* above it, the others on the ground, in the same place, one unit away or
\* three units away
PhysSpots(n) ==
  IF n = 1 THEN {Vec(0, 0, 0), Vec(0, 10, 0)}
  ELSE {Vec(0, 0, 0), Vec(100, 0, 0), Vec(300, 0, 0)}

PhysDts == {10}                  \* dt of update: 0.1 s
PhysForces == {Vec(100, 200, 0)} \* force of applyForce
PhysGravities == {-500}          \* value of setGravity

\* PhysicsSystem.addBody(entity, config): the body record, with the keys the
\* game gives
BodyOf(oid, config) ==
  [NewBody(oid, config) EXCEPT
     !.restitution = OrElse(config.restitution, DefaultRestitution)]

\* one event for each body the response moved
PublishedPerMove(evs, hit, a, b) ==
  evs \o (IF hit /\ ~a.isStatic THEN <<[bodyA |-> a.entity, bodyB |-> b.entity]>>
          ELSE <<>>)
      \o (IF hit /\ ~b.isStatic THEN <<[bodyA |-> a.entity, bodyB |-> b.entity]>>
          ELSE <<>>)

\* one event for each pair examined
PublishedAlways(evs, hit, a, b) ==
  Append(evs, [bodyA |-> a.entity, bodyB |-> b.entity])

\* checkCollision, line 1013: emit('collision', {bodyA, bodyB}) inside the
\* test of the overlap; evs is what has been published so far
Published(evs, hit, a, b) ==
  IF hit THEN Append(evs, [bodyA |-> a.entity, bodyB |-> b.entity]) ELSE evs

\* both bodies pushed, static or not
SeparateBoth(h, a, b) ==
  Separate(h, [a EXCEPT !.isStatic = FALSE], [b EXCEPT !.isStatic = FALSE])

\* checkCollision, lines 998-1010: the response to a collision
Respond(h, a, b) == Separate(h, a, b)

RECURSIVE PairPass(_, _, _, _)
\* PhysicsSystem.update, lines 972-976: checkCollision for every pair from
\* (i, j) on; st.pairs records, for each pair examined, the positions read
\* and the positions left
PairPass(bs, st, i, j) ==
  LET np == NextPair(i, j, Len(bs))
  IN IF np.i >= Len(bs) THEN st
     ELSE LET a == bs[np.i + 1]
              b == bs[np.j + 1]
              hit == Collides(st.heap, a, b)
              h2 == IF hit THEN Respond(st.heap, a, b) ELSE st.heap
          IN PairPass(bs,
                      [heap |-> h2,
                       pairs |-> Append(st.pairs,
                                   [a |-> a.entity, b |-> b.entity,
                                    posA |-> PositionGet(st.heap, a.entity),
                                    posB |-> PositionGet(st.heap, b.entity),
                                    afterA |-> PositionGet(h2, a.entity),
                                    afterB |-> PositionGet(h2, b.entity)]),
                       events |-> Published(st.events, hit, a, b)],
                      np.i, np.j + 1)

\* integration with the gravity the system was built with
IntegrateDefaultGravity(bs, h, g, d) == IntegrateAll(bs, h, 1, Gravity, d)

\* PhysicsSystem.update, lines 922-969, with this.gravity
Integrate(bs, h, g, d) == IntegrateAll(bs, h, 1, g, d)

NoForce == Vec(0, 0, 0)

PhysInit ==
  /\ gravity = Gravity
  /\ physHist = [cfgs |-> <<>>, forces |-> <<>>, applied |-> 0, steps |-> 0,
                 last |-> [dt |-> 0, g |-> 0, bodies |-> <<>>, heap |-> <<>>,
                           forces |-> <<>>, pairs |-> <<>>, events |-> <<>>,
                           outBodies |-> <<>>, outHeap |-> <<>>]]

\* cubie.primitive.sphere(name, {position: spot, physics: config})
PhysAddBody(spot, config) ==
  /\ mode = "3d"
  /\ physHist.steps = 0 /\ physHist.applied = 0
  /\ Len(heap) < MaxPhysBodies
  /\ Len(heap) < Len(SphereNames)
  /\ LET oid == Len(heap) + 1
         name == SphereNames[oid]
         ent == [NewEntity(name, [mesh |-> TRUE, layer |-> ""]) EXCEPT
                   !.pos = spot]
     IN /\ heap' = Append(heap, ent)
        /\ entities' = MapSet(entities, name, oid)
        /\ scene' = AttachScene(mode, scene, ent, oid)
        /\ layers' = AttachLayers(mode, layers, ent, oid, "")
        /\ bodies' = Append(bodies, BodyOf(oid, config))
        /\ emitted' = <<Event("entity:create", oid, name, entities', scene', layers')>>
        /\ lastOp' = [op |-> "create", name |-> name, ent |-> oid,
                      prev |-> EntityGet(entities, name), threw |-> FALSE,
                      before |-> Before]
        /\ physHist' = [physHist EXCEPT
                          !.cfgs = Append(@, [config |-> config, pos |-> spot]),
                          !.forces = Append(@, NoForce)]
  /\ UNCHANGED <<mode, sysHeap, systems, busVars, loopVars, pc, hooks, ftrace,
                 removedNow, touched, pairsSeen, tweenVars, partVars,
                 gravity, posVars, lifeVars>>

\* cubie.physics.applyForce(body, force)
ApplyForce(n, force) ==
  /\ n \in DOMAIN bodies
  /\ physHist.applied < MaxForces
  /\ LET b == bodies[n]
         da == Vec(FDiv(force.x, b.mass), FDiv(force.y, b.mass),
                   FDiv(force.z, b.mass))
     IN /\ bodies' = [bodies EXCEPT ![n].acceleration =
                        Vec(b.acceleration.x + da.x, b.acceleration.y + da.y,
                            b.acceleration.z + da.z)]
        /\ physHist' = [physHist EXCEPT
                          !.applied = @ + 1,
                          !.forces[n] = Vec(@.x + da.x, @.y + da.y, @.z + da.z)]
  /\ UNCHANGED <<busVars, regVars, loopVars, pc, hooks, ftrace, removedNow,
                 touched, pairsSeen, tweenVars, partVars, gravity, posVars, lifeVars>>

\* cubie.physics.setGravity(g)
SetGravity(g) ==
  /\ bodies # <<>>
  /\ gravity # g
  /\ gravity' = g
  /\ UNCHANGED <<busVars, regVars, frameVars, tweenVars, partVars, physHist,
                 posVars, lifeVars>>

\* cubie.physics.update(dt)
PhysStep(d) ==
  /\ bodies # <<>>
  /\ physHist.steps < MaxPhysSteps
  /\ LET r == Integrate(bodies, heap, gravity, d)
         p == PairPass(r.bodies, [heap |-> r.heap, pairs |-> <<>>, events |-> <<>>],
                       0, 1)
     IN /\ bodies' = r.bodies
        /\ heap' = p.heap
        /\ physHist' = [physHist EXCEPT
                          !.steps = @ + 1,
                          !.forces = [n \in DOMAIN @ |-> NoForce],
                          !.last = [dt |-> d, g |-> gravity, bodies |-> bodies,
                                    heap |-> [n \in DOMAIN heap |-> heap[n].pos],
                                    forces |-> physHist.forces,
                                    pairs |-> p.pairs, events |-> p.events,
                                    outBodies |-> r.bodies,
                                    outHeap |-> [n \in DOMAIN heap |-> p.heap[n].pos]]]
  /\ UNCHANGED <<busVars, mode, entities, scene, layers, sysHeap, systems,
                 lastOp, emitted, loopVars, pc, hooks, ftrace, removedNow,
                 touched, pairsSeen, tweenVars, partVars, gravity, posVars, lifeVars>>

PhysNext ==
  \/ \E spot \in PhysSpots(Len(heap) + 1), config \in PhysConfigs(Len(heap) + 1) :
        PhysAddBody(spot, config)
  \/ \E force \in PhysForces : ApplyForce(1, force)
  \/ \E g \in PhysGravities : SetGravity(g)
  \/ \E d \in PhysDts : PhysStep(d)

----------------------------------------------------------------------------
(* PhysicsSystem: spheres placed beside and above one another *)

\* the positions the game gives these spheres: on the ground, one unit above
\* the first, one unit beside it, or three units away
StackSpots == {Vec(0, 0, 0), Vec(0, 100, 0), Vec(100, 0, 0), Vec(300, 0, 0)}

\* their physics configs: a default dynamic body or a static one
StackConfigs == PhysConfigs(2)

StackNext ==
  \/ \E spot \in StackSpots, config \in StackConfigs : PhysAddBody(spot, config)
  \/ \E d \in PhysDts : PhysStep(d)

----------------------------------------------------------------------------
(* Entity.position, set and read by a game *)

\* the positions the game sets
PosValues == [x : {0, 150}, y : {0, -50}, z : {0, 70}]

PosInit ==
  posHist = [ent |-> 0, phase |-> "none", p |-> Vec(0, 0, 0), got |-> Vec(0, 0, 0)]

\* cubie.entity.create(name, config), with a mesh or without one
PosCreate(name, mesh) ==
  /\ Len(heap) < MaxPosEntities
  /\ EntityGet(entities, name) = 0
  /\ Create(name, [mesh |-> mesh, layer |-> ""])

\* entity.position.set(p)
PosSet(oid, p) ==
  /\ oid \in DOMAIN heap
  /\ heap' = PositionSet(heap, oid, p)
  /\ posHist' = [posHist EXCEPT !.ent = oid, !.phase = "set", !.p = p]
  /\ UNCHANGED <<mode, entities, scene, layers, sysHeap, systems, lastOp,
                 emitted, busVars, frameVars, tweenVars, partVars, physVars,
                 lifeVars>>

\* entity.position.get(), called right after set
PosGet(oid) ==
  /\ posHist.phase = "set"
  /\ posHist.ent = oid
  /\ posHist' = [posHist EXCEPT !.phase = "got", !.got = PositionGet(heap, oid)]
  /\ UNCHANGED <<busVars, regVars, frameVars, tweenVars, partVars, physVars,
                 lifeVars>>

PosNext ==
  \/ \E name \in EntityNames, mesh \in MeshChoice(mode) : PosCreate(name, mesh)
  \/ \E oid \in DOMAIN heap, p \in PosValues : PosSet(oid, p)
  \/ \E oid \in DOMAIN heap : PosGet(oid)

----------------------------------------------------------------------------
(* Specifications *)

ExtInit == TweenInit /\ PartInit /\ PhysInit /\ PosInit /\ LifeInit

\* the event emitter on its own, in an engine that is otherwise left as built
BusSpecInit == BusInit /\ RegInit /\ FrameInit /\ ExtInit /\ mode = "3d"
SpecBus == BusSpecInit /\ [][BusNext]_vars

\* the entity registry, with no subscriber on the bus
RegSpecInit == BusInit /\ RegInit /\ FrameInit /\ ExtInit
SpecReg == RegSpecInit /\ [][RegNext]_vars

\* the system table
SysSpecInit == BusInit /\ RegInit /\ FrameInit /\ ExtInit /\ mode = "3d"
SpecSys == SysSpecInit /\ [][SysNext]_vars

\* the frame loop and the system table
SchedSpecInit == BusInit /\ RegInit /\ FrameInit /\ ExtInit /\ mode = "3d"
SpecSched == SchedSpecInit /\ [][SchedNext]_vars

\* the frame loop and the pairwise pass
PairsSpecInit == BusInit /\ RegInit /\ FrameInit /\ ExtInit /\ mode = "3d"
SpecPairs == PairsSpecInit /\ [][PairsNext]_vars

\* start, stop, pause and resume
LoopSpecInit == BusInit /\ RegInit /\ FrameInit /\ ExtInit /\ mode = "3d"
SpecLoop == LoopSpecInit /\ [][LoopNext]_vars

\* the tween system, stepped by the game
TweenSpecInit == BusInit /\ RegInit /\ FrameInit /\ ExtInit /\ mode = "3d"
SpecTween == TweenSpecInit /\ [][TweenNext]_vars

\* emitters that stay below their maximum, under frames of varying length
SpawnSpecInit == BusInit /\ RegInit /\ FrameInit /\ ExtInit /\ mode = "3d"
SpecSpawn == SpawnSpecInit /\ [][SpawnNext]_vars

\* SpecLoop with a display that keeps refreshing: a callback that is pending
\* is run in the end
SpecLoopFair == SpecLoop /\ WF_vars(Raf)

\* the frame loop under pause() and resume() of the game and of the page
VisSpecInit == BusInit /\ RegInit /\ FrameInit /\ ExtInit /\ mode = "3d"
SpecVis == VisSpecInit /\ [][VisNext]_vars

\* physics.update on spheres that may sit on top of one another
StackSpecInit == BusInit /\ RegInit /\ FrameInit /\ ExtInit /\ mode = "3d"
SpecStack == StackSpecInit /\ [][StackNext]_vars

\* the frame loop with hooks, systems and scripts that may throw
ThrowSpecInit == BusInit /\ RegInit /\ FrameInit /\ ExtInit /\ mode = "3d"
SpecThrow == ThrowSpecInit /\ [][ThrowNext]_vars

\* position.set and position.get, on 3D and on 2D entities
PosSpecInit == BusInit /\ RegInit /\ FrameInit /\ ExtInit
SpecPos == PosSpecInit /\ [][PosNext]_vars

\* the physics system, stepped by a game that calls update itself
PhysSpecInit == BusInit /\ RegInit /\ FrameInit /\ ExtInit /\ mode = "3d"
SpecPhys == PhysSpecInit /\ [][PhysNext]_vars

\* the particle system: emitters created, stepped and removed
PartSpecInit == BusInit /\ RegInit /\ FrameInit /\ ExtInit /\ mode = "3d"
SpecPart == PartSpecInit /\ [][PartNext]_vars

\* the frame loop of a 3D game
FrameSpecInit == BusInit /\ RegInit /\ FrameInit /\ ExtInit /\ mode = "3d"
SpecFrame == FrameSpecInit /\ [][FrameNext]_vars

----------------------------------------------------------------------------
(* EventEmitter: properties *)

Range(q) == {q[i] : i \in 1..Len(q)}

RECURSIVE Expand(_, _, _)
\* the invocations of a publish over the array s at depth d, from index i on,
\* every publishing callback followed by the whole nested publish
Expand(s, d, i) ==
  IF i > Len(s) THEN <<>>
  ELSE <<<<d, s[i]>>>>
       \o (IF Publishes(s[i].cb, d) THEN Expand(s, d + 1, 1) ELSE <<>>)
       \o Expand(s, d, i + 1)

\* C3 (as claimed): when a callback unsubscribes itself while a publish is
\* invoking it, that publish still invokes every callback that was subscribed
\* when it began exactly once, and the callback that unsubscribed itself is
\* gone from the table.
C3_SelfUnsubscribeKeepsDispatch ==
  (/\ done # NoFrame
   /\ \A i \in 1..Len(done.snap) : done.snap[i].cb \in {User("a"), User("u")})
  => /\ done.calls = done.snap
     /\ \A i \in 1..Len(done.calls) :
          done.calls[i].cb = User("u") => done.calls[i] \notin Range(events[done.ev])

\* C4 (as claimed): the callback given to once() runs at most once, whatever
\* is published afterwards and also when it publishes the event itself.
C4_OnceRunsOnce ==
  \A n \in DOMAIN onceCalls : onceCalls[n] <= 1

----------------------------------------------------------------------------
(* Entity registry and system table: properties *)

\* C7: right after create(name, ...) get(name) returns an entity of that
\* name, and right after remove(name) get(name) returns nothing.
C7_CreateGetRemoveGet ==
  /\ lastOp.op = "create" =>
       /\ EntityGet(entities, lastOp.name) # 0
       /\ heap[EntityGet(entities, lastOp.name)].name = lastOp.name
  /\ lastOp.op = "remove" => EntityGet(entities, lastOp.name) = 0

C7_Witness ==
  /\ lastOp.op = "remove"
  /\ lastOp.prev # 0
  /\ entities # <<>>

\* C8 (as claimed): create(name, ...) for a registered name fails and changes
\* nothing: get(name) still returns the entity registered before, the
\* renderer holds what it held, and no event is published.
C8_DuplicateCreateRejected ==
  (lastOp.op = "create" /\ lastOp.prev # 0)
  => /\ lastOp.threw
     /\ EntityGet(entities, lastOp.name) = lastOp.prev
     /\ scene = lastOp.before.scene
     /\ layers = lastOp.before.layers
     /\ emitted = <<>>

\* C9: create publishes one entity:create carrying the new entity, which
\* get(name) returns by then; remove of a registered name publishes one
\* entity:remove carrying the removed entity, which by then get(name) no
\* longer returns and the renderer no longer holds; remove of a name that is
\* not registered publishes nothing and changes nothing.
C9_RegistryEvents ==
  /\ lastOp.op = "create" =>
       /\ Len(emitted) = 1
       /\ emitted[1].ev = "entity:create"
       /\ emitted[1].ent = lastOp.ent
       /\ emitted[1].got = lastOp.ent
  /\ (lastOp.op = "remove" /\ lastOp.prev # 0) =>
       /\ Len(emitted) = 1
       /\ emitted[1].ev = "entity:remove"
       /\ emitted[1].ent = lastOp.prev
       /\ emitted[1].got = 0
       /\ ~emitted[1].att
  /\ (lastOp.op = "remove" /\ lastOp.prev = 0) =>
       /\ emitted = <<>>
       /\ entities = lastOp.before.entities
       /\ scene = lastOp.before.scene
       /\ layers = lastOp.before.layers

C9_Witness ==
  /\ lastOp.op = "remove"
  /\ lastOp.prev # 0
  /\ Attached(lastOp.before.scene, lastOp.before.layers, lastOp.prev)
  /\ Len(emitted) = 1

\* C10 (as claimed): system.add(name, system) for a name the table has fails:
\* the system registered before stays under the name and the new system's
\* init is not called.
C10_DuplicateSystemRejected ==
  (lastOp.op = "addSystem" /\ lastOp.prev # 0)
  => /\ lastOp.threw
     /\ SystemGet(systems, lastOp.name) = lastOp.prev
     /\ sysHeap[lastOp.ent].inits = 0

----------------------------------------------------------------------------
(* Frame loop: properties *)

HookCalls(kind) ==
  [n \in 1..Len(hooks[kind]) |-> Call(kind, hooks[kind][n], 0)]

RECURSIVE SystemCalls(_)
\* the updates of the enabled systems, from the k-th entry of the table on
SystemCalls(k) ==
  IF k > Len(systems) THEN <<>>
  ELSE (IF sysHeap[systems[k].val].enabled /\ sysHeap[systems[k].val].hasUpdate
        THEN <<Call("system", systems[k].val, 0)>> ELSE <<>>)
       \o SystemCalls(k + 1)

RECURSIVE EntityCalls(_)
\* the script updates of the enabled entities, from the k-th entry on
EntityCalls(k) ==
  IF k > Len(entities) THEN <<>>
  ELSE (IF heap[entities[k].val].enabled
        THEN ScriptCalls(entities[k].val, heap[entities[k].val].scripts)
        ELSE <<>>)
       \o EntityCalls(k + 1)

IsListed(c) == c.ph # "input"

\* C1: when a frame has made its last call, the calls it made are, in this
\* order: the pre-update hooks as registered, the physics step, the particle
\* step, the tween step, the updates of the enabled systems in insertion
\* order, the scripts of the enabled entities in registry order, the
\* post-update hooks, the pre-render hooks, the render call and the
\* post-render hooks (the input update, which the frame also makes, left out).
C1_FrameOrder ==
  pc.ph = "perf" =>
    SelectSeq(ftrace, IsListed) =
      HookCalls("preUpdate")
      \o <<Call("physics", 0, 0), Call("particles", 0, 0), Call("tweens", 0, 0)>>
      \o SystemCalls(1)
      \o EntityCalls(1)
      \o HookCalls("postUpdate")
      \o HookCalls("preRender")
      \o <<Call("render", 0, 0)>>
      \o HookCalls("postRender")

C1_Witness ==
  /\ pc.ph = "perf"
  /\ frameCount = 2
  /\ hooks["preUpdate"] # <<>>
  /\ hooks["postRender"] # <<>>
  /\ Len(SystemCalls(1)) = 2
  /\ EntityCalls(1) # <<>>

\* C2 (as claimed): no step of a frame visits an entity that was removed from
\* the registry earlier in that frame: the pairwise pass neither reads it nor
\* publishes a collision carrying it, and none of its scripts runs.
C2_RemovedNotVisited ==
  touched = {}

----------------------------------------------------------------------------
(* System table and frame loop: properties *)

InTable(sid) == \E k \in DOMAIN systems : systems[k].val = sid
Times(flag) == IF flag THEN 1 ELSE 0

\* C11: every system that has an init had it called once by the add that
\* registered it; a remove of a registered name calls the system's
\* destroy once (when it has one) and deletes the entry, so that get(name)
\* finds nothing, and the removed system is not updated by any frame that
\* follows; a remove of a name that is not registered calls no destroy.
C11_SystemLifecycle ==
  /\ \A sid \in DOMAIN sysHeap :
       /\ sysHeap[sid].inits = Times(sysHeap[sid].hasInit)
       /\ sysHeap[sid].destroys <= 1
       /\ sysHeap[sid].destroys = 1 => ~InTable(sid)
  /\ lastOp.op = "addSystem" => SystemGet(systems, lastOp.name) = lastOp.ent
  /\ lastOp.op = "removeSystem" =>
       /\ SystemGet(systems, lastOp.name) = 0
       /\ IF lastOp.prev # 0
          THEN /\ ~InTable(lastOp.prev)
               /\ sysHeap[lastOp.prev].destroys
                    = Times(sysHeap[lastOp.prev].hasDestroy)
               /\ sysHeap[lastOp.prev].updates
                    = lastOp.before.sysHeap[lastOp.prev].updates
          ELSE \A sid \in DOMAIN sysHeap :
                 sysHeap[sid].destroys = lastOp.before.sysHeap[sid].destroys

C11_Witness ==
  /\ lastOp.op = "removeSystem"
  /\ lastOp.prev # 0
  /\ sysHeap[lastOp.prev].inits = 1
  /\ sysHeap[lastOp.prev].destroys = 1
  /\ sysHeap[lastOp.prev].updates = 1
  /\ frameCount = 2
  /\ pc.ph = "perf"
  /\ SystemCalls(1) # <<>>

IsSystemCall(c) == c.ph = "system"
IsScriptCall(c) == c.ph = "script"

\* C12: the system updates a frame has made are those of the systems
\* whose flag is set, in the order of the table, and the scripts it has run
\* are those of the entities whose flag is set; enable and disable set the
\* flag of the named system and leave the table, and so the system's
\* place in it, as it was.
C12_EnabledOnly ==
  /\ pc.ph = "perf" =>
       /\ SelectSeq(ftrace, IsSystemCall) = SystemCalls(1)
       /\ SelectSeq(ftrace, IsScriptCall) = EntityCalls(1)
  /\ lastOp.op \in {"enable", "disable"} =>
       /\ systems = lastOp.before.systems
       /\ lastOp.ent # 0 =>
            sysHeap[lastOp.ent].enabled = (lastOp.op = "enable")

C12_Witness ==
  /\ pc.ph = "perf"
  /\ frameCount = 2
  /\ lastOp.op = "enable"
  /\ lastOp.ent # 0
  /\ ~lastOp.before.sysHeap[lastOp.ent].enabled
  /\ sysHeap[lastOp.ent].updates = 1
  /\ Len(systems) = 2
  /\ systems[1].val = lastOp.ent
  /\ Len(SelectSeq(ftrace, IsSystemCall)) = 2
  /\ EntityGet(entities, "coin") # 0
  /\ ~heap[EntityGet(entities, "coin")].enabled


----------------------------------------------------------------------------
(* Clock and pairwise pass: properties *)

\* C13 (as claimed): no time that passed while the engine was paused is
\* part of the elapsed time of a frame the display refresh runs: the delta
\* of the first frame after a resume covers the time since the resume only.
C13_PauseNotAccumulated ==
  (pc # Idle /\ origin = "raf") => pausedTotal = 0

Registered == {bodies[k].entity : k \in DOMAIN bodies}
SeenTimes(a, b) ==
  Cardinality({k \in DOMAIN pairsSeen : pairsSeen[k] = <<a, b>>})

\* C14 (as claimed): when the pairwise pass of a step is over, every pair of
\* the bodies that are still registered has been examined once by that
\* pass, and no pair has been examined twice.
C14_PairsOnceDespiteRemoval ==
  pc.ph = "particles" =>
    /\ \A a, b \in Registered : a < b => SeenTimes(a, b) = 1
    /\ \A k, l \in DOMAIN pairsSeen : pairsSeen[k] = pairsSeen[l] => k = l


----------------------------------------------------------------------------
(* TweenSystem: properties *)

IsRegistered(id) == \E k \in DOMAIN tweens : tweens[k].id = id
TweenOf(id) == tweens[CHOOSE k \in DOMAIN tweens : tweens[k].id = id]

\* C15 (as claimed): a tween that an onComplete callback started with to()
\* while the tweens were being stepped is in the list of the engine when
\* the step returns, until it completes.
C15_ChainedTweenRegistered ==
  \A id \in DOMAIN thist \ Started :
    thist[id].completes >= 1 \/ IsRegistered(id)

\* C16: no tween calls onComplete twice; a tween in the list has not called
\* it and has elapsed < duration; a tween that called it did so in the
\* first step that took elapsed to the duration or beyond, with the end
\* value in the target, wrote nothing after that value, and is out of the
\* list.
C16_CompleteOnce ==
  \A id \in DOMAIN thist :
    /\ thist[id].completes <= 1
    /\ IsRegistered(id) =>
         /\ thist[id].completes = 0
         /\ TweenOf(id).elapsed < thist[id].duration
    /\ thist[id].completes = 1 =>
         /\ ~IsRegistered(id)
         /\ thist[id].seen = thist[id].end
         /\ thist[id].wrote = thist[id].end
         /\ thist[id].before < thist[id].duration
         /\ thist[id].fed >= thist[id].duration

C16_Witness ==
  /\ {1, 2} \subseteq DOMAIN thist
  /\ thist[1].completes = 1
  /\ thist[1].fed > thist[1].duration
  /\ thist[2].completes = 1
  /\ thist[2].fed > thist[1].fed

\* C17: a tween with linear easing and no delay that the steps have given a
\* time e, 0 < e <= duration, in all, has written
\* start + (end - start) * e / duration, start being what its property held
\* when to() was called.
C17_LinearValue ==
  \A id \in DOMAIN thist :
    ( /\ thist[id].easing = "linear"
      /\ thist[id].delay = 0
      /\ thist[id].fed > 0
      /\ thist[id].fed <= thist[id].duration )
    => /\ thist[id].writes >= 1
       /\ thist[id].wrote
            = thist[id].snap
              + TDiv((thist[id].end - thist[id].snap) * thist[id].fed,
                     thist[id].duration)

C17_Witness ==
  /\ 1 \in DOMAIN thist
  /\ thist[1].easing = "linear"
  /\ thist[1].delay = 0
  /\ thist[1].snap = 0
  /\ thist[1].fed = 100
  /\ thist[1].wrote = 500
  /\ target["x"] = 500

\* C18: a tween in the list holds as start value what its property held
\* when to() was called, and the value it wrote last is that value plus
\* (end - that value) times the eased progress, whatever other code wrote
\* into the property since, and whether the tween waited a delay or not.
C18_StartCapturedOnce ==
  \A id \in DOMAIN thist :
    IsRegistered(id) =>
      /\ TweenOf(id).start = thist[id].snap
      /\ thist[id].writes >= 1 =>
           thist[id].wrote
             = thist[id].snap
               + FMul(thist[id].end - thist[id].snap,
                      Ease(thist[id].easing,
                           Min(FDiv(TweenOf(id).elapsed, thist[id].duration),
                               Scale)))

C18_Witness ==
  /\ 1 \in DOMAIN thist
  /\ IsRegistered(1)
  /\ thist[1].delay > 0
  /\ thist[1].pokedAt >= 0
  /\ thist[1].writes > thist[1].pokedAt
  /\ thist[1].snap # PokeValue

----------------------------------------------------------------------------
(* ParticleSystem: the spawn loop *)

\* the emitters that one second was the first step of
FirstStepOfOneSecond ==
  {id \in DOMAIN phist : /\ phist[id].rate = 10
                         /\ phist[id].maxParticles = 1000
                         /\ phist[id].steps = 1
                         /\ phist[id].quarters = 4}

\* C19: a fresh emitter with rate 10 and maxParticles 1000 that is stepped
\* once with dt = 1.0 spawns exactly 10 particles in that call.
C19_TenPerSecond ==
  \A id \in FirstStepOfOneSecond : phist[id].spawned = 10

C19_Witness ==
  \E id \in FirstStepOfOneSecond : phist[id].spawned = 10 /\ phist[id].live = 10

\* C20: in every call of update(dt) and for every enabled emitter, the number
\* of particles the call spawns is at most rate * dt, whatever steps came
\* before, steps with the emitter at its maximum live count included.
\* (dt is quarters / 4.)
C20_SpawnedAtMostRateDt ==
  \A id \in DOMAIN phist :
     phist[id].steps > 0 => 4 * phist[id].spawned <= phist[id].rate * phist[id].quarters

\* C21: for every emitter and after every step, the number of live particles
\* is at most the emitter's maxParticles, for any sequence of dt values.
C21_LiveAtMostMax ==
  \A n \in DOMAIN emitters :
     Len(emitters[n].particles) <= emitters[n].maxParticles

\* an emitter that a step left full with more than one interval on its timer
C21_Witness ==
  \E n \in DOMAIN emitters :
     /\ phist[emitters[n].id].steps > 0
     /\ Len(emitters[n].particles) = emitters[n].maxParticles
     /\ CanSpawnUncapped(emitters[n])

----------------------------------------------------------------------------
(* PhysicsSystem: one call of update *)

\* the call of update made last: the bodies and positions it found
\* (bodies, heap) and the ones it left (outBodies, outHeap)
Last == physHist.last
Stepped == physHist.steps > 0

\* the distance between two positions
DistOf(pa, pb) ==
  ISqrt((pb.x - pa.x) * (pb.x - pa.x) + (pb.y - pa.y) * (pb.y - pa.y)
        + (pb.z - pa.z) * (pb.z - pa.z))

\* the sum of the radii of the two bodies of an examined pair
MinDistOf(pr) == Last.bodies[pr.a].radius + Last.bodies[pr.b].radius

\* did the two bodies overlap when the pass examined the pair
Overlapping(pr) ==
  /\ DistOf(pr.posA, pr.posB) < MinDistOf(pr)
  /\ DistOf(pr.posA, pr.posB) > 0

\* the pairs the response of the last step had to push apart
Pushed ==
  {k \in DOMAIN Last.pairs :
     /\ Overlapping(Last.pairs[k])
     /\ ~(Last.bodies[Last.pairs[k].a].isStatic
          /\ Last.bodies[Last.pairs[k].b].isStatic)}

\* C22: two bodies, at least one of them dynamic, whose entities are closer
\* than r1 + r2 (and not coincident) when the pairwise pass examines them are
\* at least r1 + r2 - epsilon apart after that step, also when one of them is
\* static.  (epsilon is taken as 0.05.)
C22_PushedApart ==
  Stepped =>
    \A k \in Pushed :
       DistOf(Last.outHeap[Last.pairs[k].a], Last.outHeap[Last.pairs[k].b])
         >= MinDistOf(Last.pairs[k]) - 5

\* the event a pair is published with
EventOf(pr) == [bodyA |-> pr.a, bodyB |-> pr.b]

\* C23: in every physics step exactly one collision event is published for
\* each pair that overlaps when it is examined, carrying both bodies, and
\* none for a pair that does not overlap.
C23_OneEventPerOverlap ==
  Stepped =>
    LET hits == SelectSeq(Last.pairs, Overlapping)
    IN Last.events = [k \in DOMAIN hits |-> EventOf(hits[k])]

C23_Witness ==
  /\ Stepped
  /\ \E k \in DOMAIN Last.pairs : Overlapping(Last.pairs[k])
  /\ Len(Last.events) = 1

\* C24: a static body is never moved or integrated: no physics step changes
\* the position of its entity or its velocity, also when it overlaps dynamic
\* bodies, where only the dynamic body is displaced.
C24_StaticStays ==
  \A n \in DOMAIN bodies :
     bodies[n].isStatic =>
       /\ heap[n].pos = physHist.cfgs[n].pos
       /\ bodies[n].velocity = Vec(0, 0, 0)

\* a static body overlapped a dynamic one, which the response moved
C24_Witness ==
  /\ Stepped
  /\ \E k \in Pushed :
        LET pr == Last.pairs[k]
        IN /\ Last.bodies[pr.b].isStatic
           /\ ~Last.bodies[pr.a].isStatic
           /\ pr.afterA # pr.posA
           /\ pr.afterB = pr.posB

\* how the body n stood before the last step, and what the step's
\* integration makes of its vertical velocity and position
Was(n) == Last.bodies[n]
VyAfterDrag(n) ==
  FMul(Was(n).velocity.y
         + FMul(IF Was(n).useGravity THEN Last.g ELSE Was(n).acceleration.y,
                Last.dt),
       Scale - Was(n).drag)
PyAfterMove(n) == Last.heap[n].y + FMul(VyAfterDrag(n), Last.dt)

\* the body went from on or above the ground plane to below it
Crossed(n) == Last.heap[n].y >= 0 /\ PyAfterMove(n) < 0

\* no pair the body is in was pushed apart in the last step
Untouched(n) ==
  \A k \in DOMAIN Last.pairs :
     (Last.pairs[k].a = n \/ Last.pairs[k].b = n)
       => (Last.pairs[k].afterA = Last.pairs[k].posA
           /\ Last.pairs[k].afterB = Last.pairs[k].posB)

\* the restitution the game configured: what it gave, or the default of 0.5
\* when it gave none
Configured(n) ==
  IF physHist.cfgs[n].config.restitution = Undefined
  THEN DefaultRestitution
  ELSE physHist.cfgs[n].config.restitution

\* C25: for every gravity-affected dynamic body and every configured
\* restitution r in [0, 1], r = 0 included, in the step in which the body
\* crosses below the ground plane its vertical velocity after the step is r
\* times the magnitude it had just before the bounce, upward, and its
\* vertical position is 0.
C25_BounceByRestitution ==
  Stepped =>
    \A n \in DOMAIN bodies :
       (~Was(n).isStatic /\ Was(n).useGravity /\ Crossed(n) /\ Untouched(n))
         => /\ Last.outBodies[n].velocity.y
                 = FMul(Abs(VyAfterDrag(n)), Configured(n))
            /\ Last.outHeap[n].y = 0

\* the acceleration the claim lets the last step integrate with: what
\* applyForce accumulated since the step before, and gravity on the vertical
\* axis of a gravity-affected body
Accumulated(n) ==
  Vec(Last.forces[n].x,
      Last.forces[n].y + (IF Was(n).useGravity THEN Last.g ELSE 0),
      Last.forces[n].z)

\* the body did not go below the ground plane in the last step
OffGround(n) == PyAfterMove(n) >= 0

\* C26: for every dynamic body, gravity-affected or not, and on every axis,
\* the forces given to applyForce since the last step are accumulated as
\* acceleration += force / mass, the next step integrates the velocity with
\* that accumulated acceleration, and the acceleration is zero after the
\* step.
C26_ForceIntegratedOnce ==
  Stepped =>
    \A n \in DOMAIN bodies :
       (~Was(n).isStatic /\ OffGround(n))
         => /\ Last.outBodies[n].velocity =
                 Vec(FMul(Was(n).velocity.x + FMul(Accumulated(n).x, Last.dt),
                          Scale - Was(n).drag),
                     FMul(Was(n).velocity.y + FMul(Accumulated(n).y, Last.dt),
                          Scale - Was(n).drag),
                     FMul(Was(n).velocity.z + FMul(Accumulated(n).z, Last.dt),
                          Scale - Was(n).drag))
            /\ Last.outBodies[n].acceleration = Vec(0, 0, 0)

\* C27: when the entities of two bodies are at exactly the same position the
\* pairwise pass skips the pair: neither entity is moved and no collision
\* event is published for it.
C27_CoincidentSkipped ==
  Stepped =>
    \A k \in DOMAIN Last.pairs :
       Last.pairs[k].posA = Last.pairs[k].posB
         => /\ Last.pairs[k].afterA = Last.pairs[k].posA
            /\ Last.pairs[k].afterB = Last.pairs[k].posB
            /\ \A e \in DOMAIN Last.events :
                  Last.events[e] # EventOf(Last.pairs[k])

C27_Witness ==
  /\ Stepped
  /\ \E k \in DOMAIN Last.pairs :
        /\ Last.pairs[k].posA = Last.pairs[k].posB
        /\ ~Last.bodies[Last.pairs[k].a].isStatic

\* the acceleration the last step integrated the body n with, as the claim
\* states it: the body's own, with gravity as its vertical component when the
\* body is gravity-affected
AccelOf(n) ==
  Vec(Was(n).acceleration.x,
      IF Was(n).useGravity THEN Last.g ELSE Was(n).acceleration.y,
      Was(n).acceleration.z)

\* (v + a * dt) * (1 - drag), axis by axis
VelocityRule(n) ==
  Vec(FMul(Was(n).velocity.x + FMul(AccelOf(n).x, Last.dt), Scale - Was(n).drag),
      FMul(Was(n).velocity.y + FMul(AccelOf(n).y, Last.dt), Scale - Was(n).drag),
      FMul(Was(n).velocity.z + FMul(AccelOf(n).z, Last.dt), Scale - Was(n).drag))

\* the body touched neither the ground plane nor its bounds nor another body
Free(n) ==
  /\ ~Was(n).isStatic
  /\ OffGround(n)
  /\ ~Was(n).bounds.on
  /\ Untouched(n)

\* C30: a dynamic body that touches neither the ground plane nor its bounds
\* nor another body in a step leaves the step with velocity
\* (v + a * dt) * (1 - drag) on each axis and position p + velocity * dt with
\* that new velocity, where the vertical component of a is the gravity last
\* set by setGravity when the body is gravity-affected.
C30_FreeFlight ==
  Stepped =>
    \A n \in DOMAIN Last.bodies :
       Free(n) =>
         /\ Last.outBodies[n].velocity = VelocityRule(n)
         /\ Last.outHeap[n] =
              Vec(Last.heap[n].x + FMul(VelocityRule(n).x, Last.dt),
                  Last.heap[n].y + FMul(VelocityRule(n).y, Last.dt),
                  Last.heap[n].z + FMul(VelocityRule(n).z, Last.dt))

\* a gravity-affected body in free flight under a gravity that setGravity set
C30_Witness ==
  /\ Stepped
  /\ Last.g # Gravity
  /\ \E n \in DOMAIN Last.bodies :
        /\ Free(n)
        /\ Was(n).useGravity
        /\ Last.outHeap[n].y < Last.heap[n].y
        /\ Last.outBodies[n].velocity = VelocityRule(n)

----------------------------------------------------------------------------
(* Entity.position *)

\* C29: for every entity, whether it delegates its transform to a mesh (3D)
\* or owns numeric fields (2D), position.set(p) followed by position.get()
\* returns p on all three axes x, y and z.
C29_SetThenGet ==
  posHist.phase = "got" => posHist.got = posHist.p

----------------------------------------------------------------------------
(* Frame loop: a callee throws *)

\* C28: if a hook, a system update or an entity script throws during a frame,
\* nothing catches it: none of the steps that follow it in the frame order
\* (later systems, entity scripts, post-update hooks, render, post-render
\* hooks) runs in that frame.
C28_ThrowAbortsFrame ==
  \A k \in DOMAIN ftrace :
     ftrace[k] = Raised => (k = Len(ftrace) /\ pc = Idle)

\* a pre-update hook threw in a frame that had a system, an entity with a
\* script and a later hook still to run
C28_Witness ==
  /\ Len(ftrace) = 2
  /\ ftrace[1].ph = "preUpdate"
  /\ ftrace[2] = Raised
  /\ Len(systems) > 0
  /\ \E n \in DOMAIN entities : heap[entities[n].val].scripts # <<>>
  /\ HookCount > 1

----------------------------------------------------------------------------
(* PhysicsSystem: the ground after the pairwise pass *)

\* C31: at the end of every physics step the entity of every dynamic body
\* has vertical position >= 0, also after the pairwise pass of that step
\* has displaced bodies.
C31_OnOrAboveGround ==
  Stepped =>
    \A n \in DOMAIN Last.outBodies :
       ~Last.outBodies[n].isStatic => Last.outHeap[n].y >= 0

----------------------------------------------------------------------------
(* ParticleSystem: the count spawned over a run of frames *)

\* the emitters that cannot have reached their maximum live count: they have
\* spawned fewer particles than it in all
BelowMax == {id \in DOMAIN phist : phist[id].total < phist[id].maxParticles}

\* C32: for an enabled emitter that never reaches its maximum live count,
\* after any sequence of steps whose dt sum to T the number of particles
\* spawned so far is at most rate * T and falls short of rate * T by at most
\* one particle, however T is split into frames.  (T is elapsed / 4.)
C32_SpawnedTracksRate ==
  \A id \in BelowMax :
     /\ 4 * phist[id].total <= phist[id].rate * phist[id].elapsed
     /\ phist[id].rate * phist[id].elapsed - 4 * phist[id].total <= 4

\* an emitter that, after frames of different lengths, is exactly one
\* particle short of rate * T
C32_Witness ==
  \E id \in BelowMax :
     /\ phist[id].steps > 2
     /\ phist[id].elapsed % 2 = 1
     /\ phist[id].total > 0
     /\ phist[id].rate * phist[id].elapsed - 4 * phist[id].total = 4

----------------------------------------------------------------------------
(* Frame loop: pause, stop and the pending callbacks *)

\* C33: while the engine is paused, the frame callbacks that fire run
\* nothing: no step that begins and ends with the running engine paused
\* makes a call of a frame or changes the elapsed time, the frame count,
\* the bodies and their entities, the emitters or the tweens.
C33_PausedRunsNothing ==
  [][(isRunning /\ isPaused /\ isPaused') =>
       UNCHANGED <<frameCount, time, dt, pc, ftrace, bodies, heap, emitters,
                   tweens, target>>]_vars

\* a callback has fired while the running engine, which has run frames on a
\* sphere, was paused
C33_Witness ==
  /\ isRunning /\ isPaused
  /\ stall > 0
  /\ frameCount > 0
  /\ bodies # <<>>
  /\ HookCount > 0

\* C38 (as claimed): a pause the game asked for with pause() stays in effect
\* until the game calls resume(): no frame is begun in between, whatever
\* changes of page visibility occur during the pause.
C38_GamePauseHolds ==
  [][(lifeHist.held /\ lifeHist.held') => frameCount' = frameCount]_vars

\* C34: after stop() and until the next start() no frame is executed: a
\* callback that was pending when stop() was called begins no frame, makes
\* no call and asks for no further callback, and in the end the stopped
\* loop has no callback pending.
C34_StoppedRunsNothing ==
  /\ [][(~isRunning /\ ~isRunning') =>
          /\ UNCHANGED <<frameCount, time, dt, pc, ftrace>>
          /\ pending' <= pending]_vars
  /\ (~isRunning ~> (isRunning \/ pending = 0))

\* a loop that ran frames and was stopped, after its last callback has fired
C34_Witness ==
  /\ ~isRunning
  /\ frameCount > 0
  /\ pending = 0
  /\ HookCount > 0

\* C35 (as claimed): whatever start(), stop(), pause() and resume() calls are
\* made between the display refreshes, at most one frame callback is pending
\* at any time.
C35_OneCallbackPending == pending <= 1

\* C37: a failure thrown inside a frame does not stop the loop: when a frame
\* has been left by an exception the engine is still running and the
\* callback for the next frame is pending, so the next display refresh runs
\* a frame.
C37_ThrowKeepsLoop ==
  (pc = Idle /\ lifeHist.threw > 0 /\ lifeHist.threw = frameCount) =>
     (isRunning /\ ~isPaused /\ pending > 0)

\* the frame after one that was left by an exception has made all its calls
C37_Witness ==
  /\ pc.ph = "perf"
  /\ lifeHist.threw > 0
  /\ lifeHist.threw = frameCount - 1
  /\ Len(ftrace) > 4
  /\ \A k \in DOMAIN ftrace : ftrace[k] # Raised
  /\ HookCount > 0
  /\ Len(systems) > 0

----------------------------------------------------------------------------
(* Entity registry: the renderer against the registry *)

\* get(name) returns this entity
IsCurrent(oid) == EntityGet(entities, heap[oid].name) = oid

\* the entities the renderer is handed: all of them in 2D, the ones with a
\* mesh in 3D
Renderable == {oid \in DOMAIN heap : mode = "2d" \/ heap[oid].mesh}

\* the entities the renderer holds without the registry, or the reverse
Astray ==
  {oid \in Renderable : Attached(scene, layers, oid) # IsCurrent(oid)}

\* C36 (as claimed): after any sequence of create and remove calls an entity
\* is held by a 2D layer, or its mesh by the 3D scene, if and only if it is
\* the entity registered under its name.
C36_AttachedIffRegistered == Astray = {}

====
